---------------------------- MODULE Spec2Model ----------------------------
(***************************************************************************)
(* SafeRoute alert-dispatch pipeline (core/alert_engine.py, core/utils.py, *)
(* core/models.py): hazard location, deduplication, severity filter,       *)
(* channel selection, fatigue guard and dispatch.                          *)
(*                                                                         *)
(* Geometry.  All points of the model lie on one meridian (equal           *)
(* longitudes), where the haversine formula reduces exactly to             *)
(* R * |lat2 - lat1| (in radians).  Latitudes are integers in units of     *)
(* 1e-4 degree; distances are integers in millimetres.                     *)
(*                                                                         *)
(* Time.  The clock `now` and all timestamps are integers in minutes.      *)
(***************************************************************************)
EXTENDS Integers, Sequences, FiniteSets, TLC

VARIABLES
    store,      \* Hazard.objects.all(): sequence of Hazard rows, Meta.ordering = -created_at
    alertLog,   \* AlertLog rows in insertion order (append-only table)
    now,        \* timezone.now(), in minutes
    eng,        \* the LifeSaverAlertEngine instances and the position of their call
    smsLog,     \* calls made to the SMS transport (send_sms_alert), in call order
    voiceLog,   \* calls made to the voice transport (make_voice_call), in call order
    ussd_sessions,  \* the module's dict ussd_sessions: phone number -> session, if any
    reports,    \* Report rows in insertion order
    ussd_call   \* the last request ussd_webhook handled and its response

vars == <<store, alertLog, now, eng, smsLog, voiceLog, ussd_sessions, reports, ussd_call>>

\* the state of the reporting flow, which the alert pipeline never touches
ussd_vars == <<ussd_sessions, reports, ussd_call>>

---------------------------------------------------------------------------
(* Bounds of the model *)

MaxHazards == 3     \* rows of the hazard store in the deduplication specification
MaxRunHazards == 1  \* rows of the hazard store in the dispatch specifications
MaxTime == 31       \* the clock stops here
MaxCalls == 2       \* no run starts once a transport has been called this often
MaxOutcomes == 2    \* no run starts on an engine holding this many outcomes
MaxPipelineHazards == 2  \* rows of the hazard store in the single-run specification
MaxReports == 1          \* rows of the Report table
MaxTextLen == 2          \* parts of the text of a USSD request
MaxInputs == 4           \* inputs a user makes in one gateway session

(* Program constants *)

DEFAULT_RADIUS_METERS == 300
SEVERITY_THRESHOLD == 2
DEDUP_DISTANCE_METERS == 50
VOICE_SEVERITY == 4
ALERT_COOLDOWN_MINUTES == 30
MM_PER_LAT_UNIT == 11119   \* 6371000 m * radians(1e-4 degree) = 11.119 m, in millimetres
MM_PER_METER == 1000
NO_RADIUS == -1            \* radius_meters = None
NAIROBI_LATITUDE == -12921     \* get_approximate_location: -1.2921 degrees, in 1e-4 degrees
NAIROBI_LONGITUDE == 368219    \* 36.8219 degrees

(* Input domains *)

HAZARD_TYPES == {"BLACKSPOT", "BAD_ROAD", "ACCIDENT", "PEDESTRIANS"}
SEVERITY_CHOICES == 1..5
Engines == {"E1", "E2"}
Phones == {"P1", "P2"}
Meridians == {0}
Longitude == CHOOSE lon \in Meridians : TRUE    \* the meridian of the model
\* hazard rows of the deduplication specification
TypesUsed == {"ACCIDENT", "BAD_ROAD"}
SeveritiesUsed == {3, 5}
CreatedTimes == {0, 1}
LatGrid == {0, 4, 8}    \* 4 units = 44.5 m, 8 units = 89.0 m
DriverLats == {0, 4}
RadiusInputs == {NO_RADIUS, 0, 50, 300}
\* hazard rows of the dispatch specifications: below the threshold, SMS, VOICE
DispatchSeverities == {1, 2, 4}
DispatchTypes == <<"ACCIDENT", "BAD_ROAD">>
TickSteps == {10, 21}   \* minutes
RunLats == {0, 4}       \* hazard rows of the single-run specification: 0 m and 44.5 m away

---------------------------------------------------------------------------
(* Sequence helpers *)

Abs(x) == IF x < 0 THEN -x ELSE x

Range(s) == {s[i] : i \in 1..Len(s)}

RECURSIVE Concat(_)
Concat(ss) == IF ss = <<>> THEN <<>> ELSE Head(ss) \o Concat(Tail(ss))

\* list.sort(key=...) and sorted(..., key=...) are stable and ascending in the
\* key.  keys is the sequence of the keys of s, each a sequence of integers
\* (a Python tuple), compared lexicographically.
RECURSIVE KeyLess(_, _)
KeyLess(k1, k2) ==
    IF k1 = <<>> \/ k2 = <<>> THEN FALSE
    ELSE IF Head(k1) # Head(k2) THEN Head(k1) < Head(k2)
    ELSE KeyLess(Tail(k1), Tail(k2))

\* insert index x into the sorted index sequence idx, after every index whose
\* key is not greater
RECURSIVE InsertStable(_, _, _)
InsertStable(x, idx, keys) ==
    IF idx = <<>> THEN <<x>>
    ELSE IF KeyLess(keys[x], keys[Head(idx)]) THEN <<x>> \o idx
    ELSE <<Head(idx)>> \o InsertStable(x, Tail(idx), keys)

RECURSIVE SortedIndices(_, _)
SortedIndices(n, keys) ==
    IF n = 0 THEN <<>>
    ELSE InsertStable(n, SortedIndices(n - 1, keys), keys)

StableSort(s, keys) ==
    LET idx == SortedIndices(Len(s), keys)
    IN  [k \in 1..Len(s) |-> s[idx[k]]]

---------------------------------------------------------------------------
(* DistanceCalculator *)

haversine_distance(lat1, lon1, lat2, lon2) ==
    \* dlon = 0 on the model's meridian: a = sin(dlat/2)^2, c = |dlat|
    MM_PER_LAT_UNIT * Abs(lat2 - lat1)

---------------------------------------------------------------------------
(* HazardLocator *)

\* mutant: the list is not sorted, the rows stay in store order
find_nearby_unsorted(all_hazards, latitude, longitude, radius_meters) ==
    LET dist(h) == haversine_distance(latitude, longitude, h.latitude, h.longitude)
    IN  SelectSeq(all_hazards, LAMBDA h : dist(h) <= radius_meters * MM_PER_METER)

\* mutant: hazards whose expiry lies in the past are left out
find_nearby_unexpired(all_hazards, latitude, longitude, radius_meters) ==
    LET dist(h) == haversine_distance(latitude, longitude, h.latitude, h.longitude)
        within == SelectSeq(all_hazards,
                            LAMBDA h : /\ dist(h) <= radius_meters * MM_PER_METER
                                       /\ (h.expires_at = <<>> \/ h.expires_at[1] >= now))
    IN  StableSort(within, [k \in 1..Len(within) |-> <<dist(within[k])>>])

\* nearby.sort(key=lambda x: x['distance']) over the rows within the radius
find_nearby(all_hazards, latitude, longitude, radius_meters) ==
    LET dist(h) == haversine_distance(latitude, longitude, h.latitude, h.longitude)
        within == SelectSeq(all_hazards, LAMBDA h : dist(h) <= radius_meters * MM_PER_METER)
    IN  StableSort(within, [k \in 1..Len(within) |-> <<dist(within[k])>>])

---------------------------------------------------------------------------
(* Deduplicator *)

\* keys of hazards_by_type, in insertion order (first occurrence of each type)
RECURSIVE TypeOrder(_)
TypeOrder(hazards) ==
    IF hazards = <<>> THEN <<>>
    ELSE LET rest == TypeOrder(SubSeq(hazards, 1, Len(hazards) - 1))
             t == hazards[Len(hazards)].type
         IN  IF t \in Range(rest) THEN rest ELSE Append(rest, t)

\* mutant: the group of a type takes in the hazards of every type
hazards_by_type_any(hazards, htype) == hazards

hazards_by_type(hazards, htype) == SelectSeq(hazards, LAMBDA h : h.type = htype)

within_dedup_distance(h1, h2) ==
    haversine_distance(h1.latitude, h1.longitude, h2.latitude, h2.longitude)
        <= DEDUP_DISTANCE_METERS * MM_PER_METER

\* mutant: the distance is taken to the member added last, not to the seed
RECURSIVE cluster_scan_chained(_, _, _, _, _)
cluster_scan_chained(hazards, i, j, cluster, used) ==
    IF j > Len(hazards) THEN <<cluster, used>>
    ELSE IF j \in used THEN cluster_scan_chained(hazards, i, j + 1, cluster, used)
    ELSE IF within_dedup_distance(hazards[cluster[Len(cluster)]], hazards[j])
         THEN cluster_scan_chained(hazards, i, j + 1, Append(cluster, j), used \cup {j})
         ELSE cluster_scan_chained(hazards, i, j + 1, cluster, used)

\* inner loop: for j, h2 in enumerate(hazards[i+1:], i+1)
\* acc = <<cluster (sequence of indices), used>>
RECURSIVE cluster_scan(_, _, _, _, _)
cluster_scan(hazards, i, j, cluster, used) ==
    IF j > Len(hazards) THEN <<cluster, used>>
    ELSE IF j \in used THEN cluster_scan(hazards, i, j + 1, cluster, used)
    ELSE IF within_dedup_distance(hazards[i], hazards[j])
         THEN cluster_scan(hazards, i, j + 1, Append(cluster, j), used \cup {j})
         ELSE cluster_scan(hazards, i, j + 1, cluster, used)

\* mutant: the outer loop does not skip the hazards already used
RECURSIVE cluster_loop_no_skip(_, _, _, _)
cluster_loop_no_skip(hazards, i, clusters, used) ==
    IF i > Len(hazards) THEN clusters
    ELSE LET r == cluster_scan(hazards, i, i + 1, <<i>>, used \cup {i})
         IN  cluster_loop_no_skip(hazards, i + 1, Append(clusters, r[1]), r[2])

\* outer loop: for i, h1 in enumerate(hazards); clusters as sequences of indices
RECURSIVE cluster_loop(_, _, _, _)
cluster_loop(hazards, i, clusters, used) ==
    IF i > Len(hazards) THEN clusters
    ELSE IF i \in used THEN cluster_loop(hazards, i + 1, clusters, used)
    ELSE LET r == cluster_scan(hazards, i, i + 1, <<i>>, used \cup {i})
         IN  cluster_loop(hazards, i + 1, Append(clusters, r[1]), r[2])

build_clusters(hazards) == cluster_loop(hazards, 1, <<>>, {})

\* mutant: the key is the creation time alone, the newest member wins
best_of_newest(cluster) ==
    StableSort(cluster, [k \in 1..Len(cluster) |-> <<-cluster[k].created_at>>])[1]

\* mutant: the seed of the cluster, its member nearest to the driver, is kept
best_of_seed(cluster) == cluster[1]

\* sorted(cluster, key=lambda x: (-x.severity, -x.created_at.timestamp()))[0]
best_of(cluster) ==
    StableSort(cluster,
               [k \in 1..Len(cluster) |-> <<-cluster[k].severity, -cluster[k].created_at>>])[1]

members(hazards, cluster) == [k \in 1..Len(cluster) |-> hazards[cluster[k]]]

\* mutant: a type with a single hazard is not carried over
dedup_group_drops_single(hazards) ==
    IF Len(hazards) = 1 THEN <<>>
    ELSE LET clusters == build_clusters(hazards)
         IN  [c \in 1..Len(clusters) |-> best_of(members(hazards, clusters[c]))]

dedup_group(hazards) ==
    IF Len(hazards) = 1 THEN <<hazards[1]>>
    ELSE LET clusters == build_clusters(hazards)
         IN  [c \in 1..Len(clusters) |-> best_of(members(hazards, clusters[c]))]

\* mutant: the representatives are put back into distance order
deduplicate_by_distance(nearby_hazards) ==
    LET order == TypeOrder(nearby_hazards)
        kept == Concat([t \in 1..Len(order) |->
                           dedup_group(hazards_by_type(nearby_hazards, order[t]))])
    IN  SelectSeq(nearby_hazards, LAMBDA h : h \in Range(kept))

deduplicate(nearby_hazards) ==
    LET order == TypeOrder(nearby_hazards)
    IN  Concat([t \in 1..Len(order) |-> dedup_group(hazards_by_type(nearby_hazards, order[t]))])

\* the clusters built by the last deduplicate_hazards call, per type group of
\* more than one hazard, as sequences of hazards
clusters_of(nearby_hazards) ==
    LET order == TypeOrder(nearby_hazards)
        multi == SelectSeq(order, LAMBDA t : Len(hazards_by_type(nearby_hazards, t)) > 1)
    IN  [t \in 1..Len(multi) |->
            LET g == hazards_by_type(nearby_hazards, multi[t])
                cs == build_clusters(g)
            IN  [c \in 1..Len(cs) |-> members(g, cs[c])]]

---------------------------------------------------------------------------
(* SeverityFilter and ChannelSelector *)

\* mutant: the threshold is not applied
filter_by_severity_all(deduplicated_hazards) == deduplicated_hazards

\* mutant: the threshold printed by demo_severity_filtering, severity > 2
filter_by_severity_gt(deduplicated_hazards) ==
    SelectSeq(deduplicated_hazards, LAMBDA h : h.severity > SEVERITY_THRESHOLD)

filter_by_severity(deduplicated_hazards) ==
    SelectSeq(deduplicated_hazards, LAMBDA h : h.severity >= SEVERITY_THRESHOLD)

\* mutant: accidents are always announced by voice
select_alert_channel_by_type(hazard) ==
    IF hazard.severity >= VOICE_SEVERITY \/ hazard.type = "ACCIDENT" THEN "VOICE" ELSE "SMS"

\* mutant: severity > 4
select_alert_channel_gt(hazard) ==
    IF hazard.severity > VOICE_SEVERITY THEN "VOICE" ELSE "SMS"

select_alert_channel(hazard) ==
    IF hazard.severity >= VOICE_SEVERITY THEN "VOICE" ELSE "SMS"

---------------------------------------------------------------------------
(* Hazard store *)

\* expires_at = models.DateTimeField(null=True, blank=True): <<>> is null,
\* <<t>> the minute t
NO_EXPIRY == <<>>

\* rows of n hazards in Meta.ordering (-created_at); ids follow insertion
HazardRow(i, n, t, sev, lat, created) ==
    [id |-> n - i + 1, type |-> t, severity |-> sev,
     latitude |-> lat, longitude |-> Longitude, created_at |-> created]

\* Meta.ordering: no row is newer than the row before it
NewestFirst(n, f) == \A i \in 1..(n - 1) : f[i][4] >= f[i + 1][4]

StoreOf(n, f) == [i \in 1..n |-> HazardRow(i, n, f[i][1], f[i][2], f[i][3], f[i][4])]

Stores(n, types, sevs, lats, createds) ==
    {StoreOf(n, f) : f \in {g \in [1..n -> types \X sevs \X lats \X createds] :
                              NewestFirst(n, g)}}

---------------------------------------------------------------------------
(* LifeSaverAlertEngine instances *)

\* the calls made for one hazard by send_alert_for_hazard: the voice call and its
\* result, the fatigue check with its time and result, the SMS calls
NoDispatch == [hazard_id |-> 0, channel |-> "none", voice |-> "none",
               guard |-> "none", checked_at |-> 0, sms |-> "none", sms_calls |-> 0,
               done |-> FALSE]

NoEngine ==
    [pc |-> "new", phone_number |-> "none", latitude |-> 0, radius_meters |-> 0,
     nearby_hazards |-> <<>>, deduplicated_hazards |-> <<>>, alerts_sent |-> <<>>,
     hazards_to_alert |-> <<>>, pos |-> 0, cur |-> NoDispatch,
     nearby_count |-> 0, dedup_count |-> 0,
     last_call |-> "init", returned |-> <<>>, clusters |-> <<>>]

\* LifeSaverAlertEngine.__init__
new_engine(phone, lat, radius) ==
    [NoEngine EXCEPT
        !.pc = "idle",
        !.phone_number = phone,
        !.latitude = lat,
        \* radius_meters or self.DEFAULT_RADIUS_METERS
        !.radius_meters = IF radius \in {NO_RADIUS, 0}
                          THEN DEFAULT_RADIUS_METERS ELSE radius]

Construct(e, phone, lat, radius) ==
    /\ eng[e].pc \in {"new", "idle"}
    /\ eng' = [eng EXCEPT ![e] = new_engine(phone, lat, radius)]
    /\ UNCHANGED <<store, alertLog, now, smsLog, voiceLog, ussd_vars>>

\* the engine after find_nearby_hazards()
after_find(E) ==
    [E EXCEPT !.nearby_hazards =
                  find_nearby(store, E.latitude, Longitude, E.radius_meters)]

\* the engine after deduplicate_hazards(), and the value the call returns
after_dedup(E) ==
    IF E.nearby_hazards = <<>> THEN E
    ELSE [E EXCEPT !.deduplicated_hazards = deduplicate(E.nearby_hazards),
                   !.clusters = clusters_of(E.nearby_hazards)]

dedup_returned(E) ==
    IF E.nearby_hazards = <<>> THEN <<>> ELSE deduplicate(E.nearby_hazards)

\* engine.find_nearby_hazards() called on its own (demo_step_by_step)
FindNearbyHazards(e) ==
    /\ eng[e].pc = "idle"
    /\ eng' = [eng EXCEPT ![e] =
                  [after_find(eng[e]) EXCEPT
                      !.last_call = "find",
                      !.returned = after_find(eng[e]).nearby_hazards]]
    /\ UNCHANGED <<store, alertLog, now, smsLog, voiceLog, ussd_vars>>

\* engine.deduplicate_hazards() called on its own (demo_step_by_step)
DeduplicateHazards(e) ==
    /\ eng[e].pc = "idle"
    /\ eng' = [eng EXCEPT ![e] =
                  [after_dedup(eng[e]) EXCEPT
                      !.last_call = "dedup",
                      !.returned = dedup_returned(eng[e])]]
    /\ UNCHANGED <<store, alertLog, now, smsLog, voiceLog, ussd_vars>>

---------------------------------------------------------------------------
(* FatigueGuard *)

\* mutant: the filter on phone_number is missing
has_recent_alert_any_phone(phone_number, hazard_id, minutes) ==
    \E k \in 1..Len(alertLog) :
        /\ alertLog[k].hazard_id = hazard_id
        /\ alertLog[k].sent_at >= now - minutes

\* mutant: sent_at__gt instead of sent_at__gte
has_recent_alert_gt(phone_number, hazard_id, minutes) ==
    \E k \in 1..Len(alertLog) :
        /\ alertLog[k].phone_number = phone_number
        /\ alertLog[k].hazard_id = hazard_id
        /\ alertLog[k].sent_at > now - minutes

\* mutant: the window is dropped, any earlier alert counts
has_recent_alert_ever(phone_number, hazard_id, minutes) ==
    \E k \in 1..Len(alertLog) :
        /\ alertLog[k].phone_number = phone_number
        /\ alertLog[k].hazard_id = hazard_id

\* mutant: timedelta(seconds=minutes)
has_recent_alert_seconds(phone_number, hazard_id, minutes) ==
    \E k \in 1..Len(alertLog) :
        /\ alertLog[k].phone_number = phone_number
        /\ alertLog[k].hazard_id = hazard_id
        /\ alertLog[k].sent_at >= now - (minutes \div 60)

\* AlertLog.objects.filter(phone_number=, hazard_id=, sent_at__gte=now - minutes).exists()
has_recent_alert(phone_number, hazard_id, minutes) ==
    \E k \in 1..Len(alertLog) :
        /\ alertLog[k].phone_number = phone_number
        /\ alertLog[k].hazard_id = hazard_id
        /\ alertLog[k].sent_at >= now - minutes

\* two AlertLog rows of one (phone_number, hazard) pair
SamePairRow(a, b) == a.phone_number = b.phone_number /\ a.hazard_id = b.hazard_id

\* AlertLog.objects.create(phone_number=, hazard=, channel=); sent_at is auto_now_add
new_alert_log(phone_number, hazard_id, channel) ==
    [phone_number |-> phone_number, hazard_id |-> hazard_id,
     channel |-> channel, sent_at |-> now]

---------------------------------------------------------------------------
(* AlertOrchestrator and NotificationDispatcher, one step per external call *)

CurHazard(e) == eng[e].hazards_to_alert[eng[e].pos]

\* the engine E entering the loop of process_alerts: steps 1 to 3 (find,
\* deduplicate, filter) are done
begin_process(E) ==
    LET found == after_find(E)
        deduped == after_dedup(found)
    IN  [deduped EXCEPT
            !.pc = "loop",
            !.last_call = "process",
            !.nearby_count = Len(found.nearby_hazards),
            !.dedup_count = Len(deduped.deduplicated_hazards),
            !.hazards_to_alert = filter_by_severity(deduped.deduplicated_hazards),
            !.pos = 0,
            !.cur = NoDispatch,
            !.returned = <<>>]

\* lifesaver_alert_engine(phone_number, latitude, longitude, radius_meters):
\* a new engine, then engine.process_alerts()
LifesaverAlertEngine(e, phone, lat, radius) ==
    /\ eng[e].pc \in {"new", "idle"}
    /\ Len(voiceLog) < MaxCalls
    /\ Len(smsLog) < MaxCalls
    /\ eng' = [eng EXCEPT ![e] = begin_process(new_engine(phone, lat, radius))]
    /\ UNCHANGED <<store, alertLog, now, smsLog, voiceLog, ussd_vars>>

\* engine.process_alerts() on an engine that exists
ProcessAlerts(e) ==
    /\ eng[e].pc = "idle"
    /\ Len(eng[e].alerts_sent) < MaxOutcomes
    /\ Len(voiceLog) < MaxCalls
    /\ Len(smsLog) < MaxCalls
    /\ eng' = [eng EXCEPT ![e] = begin_process(eng[e])]
    /\ UNCHANGED <<store, alertLog, now, smsLog, voiceLog, ussd_vars>>

\* for hazard in hazards_to_alert: send_alert_for_hazard selects the channel
NextHazard(e) ==
    /\ eng[e].pc = "loop"
    /\ eng[e].pos < Len(eng[e].hazards_to_alert)
    /\ LET h == eng[e].hazards_to_alert[eng[e].pos + 1]
           channel == select_alert_channel(h)
       IN  eng' = [eng EXCEPT
                      ![e].pos = @ + 1,
                      ![e].cur = [NoDispatch EXCEPT !.hazard_id = h.id, !.channel = channel],
                      ![e].pc = IF channel = "VOICE" THEN "voice" ELSE "check"]
    /\ UNCHANGED <<store, alertLog, now, smsLog, voiceLog, ussd_vars>>

\* self.alerts_sent.append({...}) with the (success, message) of send_alert_for_hazard;
\* trace records the calls made for this hazard
outcome(e, cur, success, message) ==
    [hazard_id |-> CurHazard(e).id, hazard_type |-> CurHazard(e).type,
     severity |-> CurHazard(e).severity, success |-> success, message |-> message,
     trace |-> cur]

\* mutant: the loop is left at the first hazard whose alert fails
finish_stops_on_failure(e, cur, success, message) ==
    [eng EXCEPT ![e].pc = "loop",
                ![e].cur = [cur EXCEPT !.done = TRUE],
                ![e].alerts_sent = Append(@, outcome(e, cur, success, message)),
                ![e].pos = IF success THEN @ ELSE Len(eng[e].hazards_to_alert)]

finish(e, cur, success, message) ==
    [eng EXCEPT ![e].pc = "loop",
                ![e].cur = [cur EXCEPT !.done = TRUE],
                ![e].alerts_sent = Append(@, outcome(e, cur, success, message))]

\* message of send_alert_for_hazard: the voice path reports the fallback when
\* sms_response is set, the SMS path prefixes "SMS: "
message_of(cur, detail) ==
    IF cur.channel = "VOICE" THEN "VOICE FAILED, SMS FALLBACK: " \o detail
    ELSE "SMS: " \o detail

\* send_voice_alert_with_fallback: the voice transport is called first; on
\* failure the SMS path (send_sms_alert_with_fatigue_check) is entered
MakeVoiceCall(e, ok) ==
    /\ eng[e].pc = "voice"
    /\ voiceLog' = Append(voiceLog, [phone_number |-> eng[e].phone_number,
                                     hazard_id |-> eng[e].cur.hazard_id,
                                     at |-> now])
    /\ LET cur == [eng[e].cur EXCEPT !.voice = IF ok THEN "ok" ELSE "fail"]
       IN  eng' = IF ok THEN finish(e, cur, TRUE, "VOICE CALL: initiated")
                  ELSE [eng EXCEPT ![e].pc = "check", ![e].cur = cur]
    /\ UNCHANGED <<store, alertLog, now, smsLog, ussd_vars>>

\* mutant: the denial is not returned, the SMS is sent all the same
FatigueCheck_no_return(e) ==
    /\ eng[e].pc = "check"
    /\ IF has_recent_alert(eng[e].phone_number, eng[e].cur.hazard_id, ALERT_COOLDOWN_MINUTES)
       THEN eng' = [eng EXCEPT ![e].pc = "send", ![e].cur.guard = "denied",
                               ![e].cur.checked_at = now]
       ELSE eng' = [eng EXCEPT ![e].pc = "create", ![e].cur.checked_at = now]
    /\ UNCHANGED <<store, alertLog, now, smsLog, voiceLog, ussd_vars>>

\* send_alert_with_fatigue_check: if has_recent_alert(...): return False, ...
FatigueCheck(e) ==
    /\ eng[e].pc = "check"
    /\ IF has_recent_alert(eng[e].phone_number, eng[e].cur.hazard_id, ALERT_COOLDOWN_MINUTES)
       THEN LET cur == [eng[e].cur EXCEPT !.guard = "denied", !.checked_at = now]
            IN  eng' = finish(e, cur, FALSE, message_of(cur, "already sent"))
       ELSE eng' = [eng EXCEPT ![e].pc = "create", ![e].cur.checked_at = now]
    /\ UNCHANGED <<store, alertLog, now, smsLog, voiceLog, ussd_vars>>

\* mutant: AlertLog.objects.update_or_create(phone_number=, hazard=): an
\* existing row of the pair is overwritten
CreateAlertLog_update_or_create(e, ok) ==
    /\ eng[e].pc = "create"
    /\ IF ok
       THEN LET row == new_alert_log(eng[e].phone_number, eng[e].cur.hazard_id, "SMS")
                old == {k \in 1..Len(alertLog) : SamePairRow(alertLog[k], row)}
            IN  /\ alertLog' = IF old = {} THEN Append(alertLog, row)
                                ELSE [k \in 1..Len(alertLog) |->
                                         IF k \in old THEN row ELSE alertLog[k]]
                /\ eng' = [eng EXCEPT ![e].pc = "send", ![e].cur.guard = "allowed"]
       ELSE /\ alertLog' = alertLog
            /\ LET cur == [eng[e].cur EXCEPT !.guard = "error"]
               IN  eng' = finish(e, cur, FALSE, message_of(cur, "Error sending alert"))
    /\ UNCHANGED <<store, now, smsLog, voiceLog, ussd_vars>>

\* mutant: the failure of the write is swallowed and the SMS is sent all the same
CreateAlertLog_sends_anyway(e, ok) ==
    /\ eng[e].pc = "create"
    /\ alertLog' = IF ok
                   THEN Append(alertLog,
                               new_alert_log(eng[e].phone_number, eng[e].cur.hazard_id, "SMS"))
                   ELSE alertLog
    /\ eng' = [eng EXCEPT ![e].pc = "send",
                           ![e].cur.guard = IF ok THEN "allowed" ELSE "error"]
    /\ UNCHANGED <<store, now, smsLog, voiceLog, ussd_vars>>

\* mutant: the reservation is a conditional write, it fails when a recent record
\* of the pair has appeared since the check
CreateAlertLog_atomic(e, ok) ==
    /\ eng[e].pc = "create"
    /\ IF ok /\ ~has_recent_alert(eng[e].phone_number, eng[e].cur.hazard_id,
                                  ALERT_COOLDOWN_MINUTES)
       THEN /\ alertLog' = Append(alertLog,
                                 new_alert_log(eng[e].phone_number, eng[e].cur.hazard_id, "SMS"))
            /\ eng' = [eng EXCEPT ![e].pc = "send", ![e].cur.guard = "allowed"]
       ELSE /\ alertLog' = alertLog
            /\ LET cur == [eng[e].cur EXCEPT !.guard = IF ok THEN "denied" ELSE "error"]
               IN  eng' = finish(e, cur, FALSE, message_of(cur, "Error sending alert"))
    /\ UNCHANGED <<store, now, smsLog, voiceLog, ussd_vars>>

\* mutant: the record is not written before the transport is called
CreateAlertLog_deferred(e, ok) ==
    /\ eng[e].pc = "create"
    /\ alertLog' = alertLog
    /\ IF ok
       THEN eng' = [eng EXCEPT ![e].pc = "send", ![e].cur.guard = "allowed"]
       ELSE LET cur == [eng[e].cur EXCEPT !.guard = "error"]
            IN  eng' = finish(e, cur, FALSE, message_of(cur, "Error sending alert"))
    /\ UNCHANGED <<store, now, smsLog, voiceLog, ussd_vars>>

\* send_alert_with_fatigue_check: try: AlertLog.objects.create(...) except: return False, ...
CreateAlertLog(e, ok) ==
    /\ eng[e].pc = "create"
    /\ IF ok
       THEN /\ alertLog' = Append(alertLog,
                                 new_alert_log(eng[e].phone_number, eng[e].cur.hazard_id, "SMS"))
            /\ eng' = [eng EXCEPT ![e].pc = "send", ![e].cur.guard = "allowed"]
       ELSE /\ alertLog' = alertLog
            /\ LET cur == [eng[e].cur EXCEPT !.guard = "error"]
               IN  eng' = finish(e, cur, FALSE, message_of(cur, "Error sending alert"))
    /\ UNCHANGED <<store, now, smsLog, voiceLog, ussd_vars>>

\* outcomes of send_sms_alert: the recipient's status is 'Success' or not, the
\* response has no recipients, sms_client.send raises, no client is configured
SmsResults == {"Success", "Rejected", "NoRecipients", "Raised", "NotConfigured"}

\* the transport answers drawn in the specifications with a clock
DispatchSmsResults == {"Success", "Rejected"}

\* the response_message of send_sms_alert
sms_message(r) ==
    CASE r = "Success" -> "SMS sent successfully"
      [] r = "Rejected" -> "SMS delivery failed"
      [] r = "NoRecipients" -> "No recipients in response"
      [] r = "Raised" -> "Error sending SMS"
      [] r = "NotConfigured" -> "Africa's Talking credentials not configured"

\* mutant: sms_client.send is called outside the try block, its exception
\* leaves process_alerts
SendSmsAlert_raises(e, r) ==
    /\ eng[e].pc = "send"
    /\ smsLog' = Append(smsLog, [phone_number |-> eng[e].phone_number,
                                 hazard_id |-> eng[e].cur.hazard_id,
                                 at |-> now, success |-> (r = "Success")])
    /\ LET cur == [eng[e].cur EXCEPT !.sms = IF r = "Success" THEN "ok" ELSE "fail",
                                     !.sms_calls = @ + 1]
       IN  eng' = IF r = "Raised"
                  THEN [eng EXCEPT ![e].pc = "raised", ![e].cur = cur]
                  ELSE finish(e, cur, r = "Success", message_of(cur, sms_message(r)))
    /\ UNCHANGED <<store, alertLog, now, voiceLog, ussd_vars>>

\* mutant: a failed send is tried once more
SendSmsAlert_retries(e, r) ==
    /\ eng[e].pc = "send"
    /\ smsLog' = Append(smsLog, [phone_number |-> eng[e].phone_number,
                                 hazard_id |-> eng[e].cur.hazard_id,
                                 at |-> now, success |-> (r = "Success")])
    /\ LET cur == [eng[e].cur EXCEPT !.sms = IF r = "Success" THEN "ok" ELSE "fail",
                                     !.sms_calls = @ + 1]
       IN  eng' = IF r # "Success" /\ eng[e].cur.sms_calls = 0
                  THEN [eng EXCEPT ![e].cur = cur]
                  ELSE finish(e, cur, r = "Success",
                              message_of(cur, IF r = "Success" THEN "SMS sent" ELSE "SMS failed"))
    /\ UNCHANGED <<store, alertLog, now, voiceLog, ussd_vars>>

\* mutant: return alert_allowed, sms_message
SendSmsAlert_returns_allowed(e, r) ==
    /\ eng[e].pc = "send"
    /\ smsLog' = Append(smsLog, [phone_number |-> eng[e].phone_number,
                                 hazard_id |-> eng[e].cur.hazard_id,
                                 at |-> now, success |-> (r = "Success")])
    /\ LET cur == [eng[e].cur EXCEPT !.sms = IF r = "Success" THEN "ok" ELSE "fail",
                                     !.sms_calls = @ + 1]
       IN  eng' = finish(e, cur, TRUE, message_of(cur, "SMS sent"))
    /\ UNCHANGED <<store, alertLog, now, voiceLog, ussd_vars>>

\* send_sms_alert_with_fatigue_check: success, sms_message = send_sms_alert(...)
SendSmsAlert(e, r) ==
    /\ eng[e].pc = "send"
    /\ smsLog' = Append(smsLog, [phone_number |-> eng[e].phone_number,
                                 hazard_id |-> eng[e].cur.hazard_id,
                                 at |-> now, success |-> (r = "Success")])
    /\ LET cur == [eng[e].cur EXCEPT !.sms = IF r = "Success" THEN "ok" ELSE "fail",
                                     !.sms_calls = @ + 1]
       IN  eng' = finish(e, cur, r = "Success", message_of(cur, sms_message(r)))
    /\ UNCHANGED <<store, alertLog, now, voiceLog, ussd_vars>>

\* process_alerts: return {...}
Report(E) ==
    [success |-> TRUE,
     nearby_hazards |-> E.nearby_count,
     deduplicated |-> E.dedup_count,
     alerts_sent |-> Len(E.alerts_sent),
     hazards |-> E.hazards_to_alert,
     alerts |-> E.alerts_sent]

ReturnReport(e) ==
    /\ eng[e].pc = "loop"
    /\ eng[e].pos = Len(eng[e].hazards_to_alert)
    /\ eng' = [eng EXCEPT ![e].pc = "idle", ![e].returned = <<Report(eng[e])>>]
    /\ UNCHANGED <<store, alertLog, now, smsLog, voiceLog, ussd_vars>>

\* the clock advances
Tick(d) ==
    /\ now + d <= MaxTime
    /\ now' = now + d
    /\ UNCHANGED <<store, alertLog, eng, smsLog, voiceLog, ussd_vars>>

---------------------------------------------------------------------------
(* The USSD reporting flow: ussd_webhook and its session state machine *)

STATE_MENU == "menu"
STATE_HAZARD_TYPE == "hazard_type"
STATE_CONFIRM == "confirm"

\* phone numbers of USSD requests; '' is what a request without one gives
UssdPhones == {""} \cup Phones

\* what the user can have keyed in last: nothing, or a digit of the menus
Keys == {"", "0", "1", "2", "3", "4"}

\* the text of a request, held as user_input.split('*'): '' is <<"">>, '1' is
\* <<"1">>, '1*2' is <<"1", "2">>. The parts before the last are never read by
\* the handlers; they are the 1 of "Report Hazard" here.
TextInputs ==
    {[i \in 1..n |-> IF i = n THEN k ELSE "1"] : n \in 1..MaxTextLen, k \in Keys}

\* request.POST of a request that can be read, each key present or not
ReadableRequests ==
    [phoneNumber : {<<>>} \cup {<<p>> : p \in Phones},
     text : {<<>>} \cup {<<t>> : t \in TextInputs},
     readable : {TRUE}]

\* a request whose body makes request.POST raise
Unreadable == [phoneNumber |-> <<>>, text |-> <<>>, readable |-> FALSE]

UssdRequests == ReadableRequests \cup {Unreadable}

\* request.POST.get(key, default)
post_get(field, default) == IF field = <<>> THEN default ELSE field[1]

\* session['data'] with no key set
no_data == [phone_number |-> <<>>, hazard_type |-> <<>>, latitude |-> <<>>, longitude |-> <<>>]

NoSessions == [p \in UssdPhones |-> <<>>]

NoCall == [phone_number |-> <<>>, state |-> "none", user_input |-> <<>>,
           response |-> [kind |-> "none", message |-> "none", hazard |-> <<>>]]

\* the module as loaded: ussd_sessions = {}, no Report row, no request handled
ussd_loaded ==
    /\ ussd_sessions = NoSessions
    /\ reports = <<>>
    /\ ussd_call = NoCall

get_session(sessions, phone_number) ==
    IF sessions[phone_number] = <<>>
    THEN [sessions EXCEPT ![phone_number] = <<[state |-> STATE_MENU, data |-> no_data]>>]
    ELSE sessions

\* mutant: ussd_sessions.clear(), every session is removed
clear_session_all(sessions, phone_number) == [p \in DOMAIN sessions |-> <<>>]

clear_session(sessions, phone_number) == [sessions EXCEPT ![phone_number] = <<>>]

\* session['state'] = state; session['data'] = data
set_session(sessions, phone_number, state, data) ==
    [sessions EXCEPT ![phone_number] = <<[state |-> state, data |-> data]>>]

get_hazard_type(code) ==
    CASE code = "1" -> <<"ACCIDENT">>
      [] code = "2" -> <<"BAD_ROAD">>
      [] code = "3" -> <<"PEDESTRIANS">>
      [] code = "4" -> <<"BLACKSPOT">>
      [] OTHER -> <<>>

\* the responses: CON continues the session, END ends it
Response(kind, message, hazard) == [kind |-> kind, message |-> message, hazard |-> hazard]
build_main_menu == Response("CON", "Welcome to SafeRoute", <<>>)
build_hazard_menu == Response("CON", "Select hazard type:", <<>>)

\* parts[-1]
last_input(user_input) == user_input[Len(user_input)]

\* the result of a handler: the sessions and the Report rows it leaves, and
\* the response it returns
Handled(sessions, rows, response) ==
    [sessions |-> sessions, reports |-> rows, response |-> response]

\* mutant: Exit answers END and leaves the session in place
handle_main_menu_keeps_session(sessions, rows, phone_number, user_input) ==
    LET session == sessions[phone_number][1]
    IN  IF user_input = <<"">> THEN Handled(sessions, rows, build_main_menu)
        ELSE IF user_input = <<"1">>
        THEN Handled(set_session(sessions, phone_number, STATE_HAZARD_TYPE,
                                 [session.data EXCEPT !.phone_number = <<phone_number>>]),
                     rows, build_hazard_menu)
        ELSE IF user_input = <<"2">>
        THEN Handled(sessions, rows, Response("CON", "SafeRoute Alerts", <<>>))
        ELSE IF user_input = <<"3">>
        THEN Handled(sessions, rows,
                     Response("END", "Thank you for using SafeRoute!", <<>>))
        ELSE Handled(sessions, rows, build_main_menu)

\* handle_main_menu compares the whole text
handle_main_menu(sessions, rows, phone_number, user_input) ==
    LET session == sessions[phone_number][1]
    IN  IF user_input = <<"">> THEN Handled(sessions, rows, build_main_menu)
        ELSE IF user_input = <<"1">>
        THEN Handled(set_session(sessions, phone_number, STATE_HAZARD_TYPE,
                                 [session.data EXCEPT !.phone_number = <<phone_number>>]),
                     rows, build_hazard_menu)
        ELSE IF user_input = <<"2">>
        THEN Handled(sessions, rows, Response("CON", "SafeRoute Alerts", <<>>))
        ELSE IF user_input = <<"3">>
        THEN Handled(clear_session(sessions, phone_number), rows,
                     Response("END", "Thank you for using SafeRoute!", <<>>))
        ELSE Handled(sessions, rows, build_main_menu)

handle_hazard_selection(sessions, rows, phone_number, user_input) ==
    LET session == sessions[phone_number][1]
        hazard_type == get_hazard_type(last_input(user_input))
    IN  IF last_input(user_input) = "0"
        THEN Handled(set_session(sessions, phone_number, STATE_MENU, no_data),
                     rows, build_main_menu)
        ELSE IF hazard_type # <<>>
        THEN Handled(set_session(sessions, phone_number, STATE_CONFIRM,
                                 [session.data EXCEPT !.hazard_type = hazard_type,
                                                      !.latitude = <<NAIROBI_LATITUDE>>,
                                                      !.longitude = <<NAIROBI_LONGITUDE>>]),
                     rows, Response("CON", "Confirm Report", hazard_type))
        ELSE Handled(sessions, rows, build_hazard_menu)

\* Report.objects.create(...): created_at is auto_now_add
new_report(phone_number, data) ==
    [phone_number |-> phone_number, hazard_type |-> data.hazard_type[1],
     latitude |-> data.latitude[1], longitude |-> data.longitude[1],
     created_at |-> now]

\* mutant: every input but Cancel submits the report
handle_confirmation_submits_invalid(sessions, rows, phone_number, user_input, ok) ==
    LET session == sessions[phone_number][1]
        data == session.data
        complete == data.hazard_type # <<>> /\ data.latitude # <<>> /\ data.longitude # <<>>
    IN  IF last_input(user_input) # "0"
        THEN IF ok /\ complete
             THEN Handled(clear_session(sessions, phone_number),
                          Append(rows, new_report(phone_number, data)),
                          Response("END", "Thank you!", data.hazard_type))
             ELSE Handled(clear_session(sessions, phone_number), rows,
                          Response("END", "Error saving report. Please try again.", <<>>))
        ELSE Handled(set_session(sessions, phone_number, STATE_MENU, no_data),
                     rows, Response("CON", "Report Cancelled", <<>>))

\* ok: Report.objects.create succeeds; it raises when it fails or when a
\* column is None, and the exception handler ends the session
handle_confirmation(sessions, rows, phone_number, user_input, ok) ==
    LET session == sessions[phone_number][1]
        data == session.data
        complete == data.hazard_type # <<>> /\ data.latitude # <<>> /\ data.longitude # <<>>
    IN  IF last_input(user_input) = "1"
        THEN IF ok /\ complete
             THEN Handled(clear_session(sessions, phone_number),
                          Append(rows, new_report(phone_number, data)),
                          Response("END", "Thank you!", data.hazard_type))
             ELSE Handled(clear_session(sessions, phone_number), rows,
                          Response("END", "Error saving report. Please try again.", <<>>))
        ELSE IF last_input(user_input) = "0"
        THEN Handled(set_session(sessions, phone_number, STATE_MENU, no_data),
                     rows, Response("CON", "Report Cancelled", <<>>))
        ELSE Handled(sessions, rows, Response("CON", "Confirm Report", data.hazard_type))

\* the call as ussd_call keeps it
Call(phone_number, state, user_input, response) ==
    [phone_number |-> phone_number, state |-> state, user_input |-> user_input,
     response |-> response]

\* ussd_webhook(request): the sessions and the rows it leaves, and the call
ussd_webhook(sessions, rows, request, ok) ==
    LET phone_number == post_get(request.phoneNumber, "")
        user_input == post_get(request.text, <<"">>)
        got == get_session(sessions, phone_number)
        state == got[phone_number][1].state
        handled ==
            IF state = STATE_MENU
            THEN handle_main_menu(got, rows, phone_number, user_input)
            ELSE IF state = STATE_HAZARD_TYPE
            THEN handle_hazard_selection(got, rows, phone_number, user_input)
            ELSE IF state = STATE_CONFIRM
            THEN handle_confirmation(got, rows, phone_number, user_input, ok)
            ELSE Handled(got, rows, Response("END", "Error: Invalid session state", <<>>))
    IN  IF ~request.readable
        \* except Exception: the request could not be parsed
        THEN [sessions |-> sessions, reports |-> rows,
              call |-> Call(<<>>, "none", <<>>,
                            Response("END", "Error: Please try again later", <<>>))]
        ELSE IF phone_number = ""
        THEN [sessions |-> sessions, reports |-> rows,
              call |-> Call(<<phone_number>>, "none", user_input,
                            Response("END", "Error: Phone number required", <<>>))]
        ELSE [sessions |-> handled.sessions, reports |-> handled.reports,
              call |-> Call(<<phone_number>>, state, user_input, handled.response)]

UssdWebhook(request, ok) ==
    LET result == ussd_webhook(ussd_sessions, reports, request, ok)
    IN  /\ Len(result.reports) <= MaxReports
        /\ ussd_sessions' = result.sessions
        /\ reports' = result.reports
        /\ ussd_call' = result.call
        /\ UNCHANGED <<store, alertLog, now, eng, smsLog, voiceLog>>

InitUssd ==
    /\ store = <<>>
    /\ alertLog = <<>>
    /\ now = 0
    /\ eng = [e \in Engines |-> NoEngine]
    /\ smsLog = <<>>
    /\ voiceLog = <<>>
    /\ ussd_loaded

\* the request reaches Report.objects.create: the caller's session is in the
\* confirm state and the last input is 1
Submits(request) ==
    LET phone_number == post_get(request.phoneNumber, "")
    IN  /\ request.readable
        /\ ussd_sessions[phone_number] # <<>>
        /\ ussd_sessions[phone_number][1].state = STATE_CONFIRM
        /\ last_input(post_get(request.text, <<"">>)) = "1"

\* the answers the database can give to the request
CreateAnswers(request) == IF Submits(request) THEN BOOLEAN ELSE {TRUE}

NextUssd ==
    \E request \in UssdRequests : \E ok \in CreateAnswers(request) : UssdWebhook(request, ok)

SpecUssd == InitUssd /\ [][NextUssd]_vars

---------------------------------------------------------------------------
(* Specification of the reporting flow behind the gateway: the text of a
   request is the '*'-joined history of the inputs of the gateway session,
   "text": "1*2" in the docstring of ussd_webhook *)

\* the digits a user can key in
Digits == Keys \ {""}

GatewayPhone == "P1"

\* the request of the phone with the text user_input
GatewayRequest(user_input) ==
    [phoneNumber |-> <<GatewayPhone>>, text |-> <<user_input>>, readable |-> TRUE]

\* the user dials the service code: a new gateway session, whose first request
\* has empty text (also after hanging up in the middle of the last one)
Dial ==
    \E ok \in CreateAnswers(GatewayRequest(<<"">>)) :
        UssdWebhook(GatewayRequest(<<"">>), ok)

\* the text after the user keys in k to the last CON response
joined(user_input, k) == IF user_input = <<"">> THEN <<k>> ELSE Append(user_input, k)

\* the user answers the last CON response with the digit k
Reply(k) ==
    /\ ussd_call.response.kind = "CON"
    /\ Len(ussd_call.user_input) < MaxInputs
    /\ \E ok \in CreateAnswers(GatewayRequest(joined(ussd_call.user_input, k))) :
          UssdWebhook(GatewayRequest(joined(ussd_call.user_input, k)), ok)

InitGateway == InitUssd

NextGateway ==
    \/ Dial
    \/ \E k \in Digits : Reply(k)

SpecGateway == InitGateway /\ [][NextGateway]_vars

---------------------------------------------------------------------------
(* Specification of the locator and the deduplicator on bounded stores *)

InitDedup ==
    /\ \E n \in 0..MaxHazards :
          \E f \in [1..n -> TypesUsed \X SeveritiesUsed \X LatGrid \X CreatedTimes] :
             /\ NewestFirst(n, f)
             /\ store = StoreOf(n, f)
    /\ alertLog = <<>>
    /\ now = 0
    /\ eng = [e \in Engines |-> NoEngine]
    /\ smsLog = <<>>
    /\ voiceLog = <<>>
    /\ ussd_loaded

NextDedup ==
    \/ /\ eng["E1"].pc = "new"
       /\ \E lat \in DriverLats, r \in RadiusInputs : Construct("E1", "P1", lat, r)
    \/ FindNearbyHazards("E1")
    \/ DeduplicateHazards("E1")

SpecDedup == InitDedup /\ [][NextDedup]_vars

---------------------------------------------------------------------------
(* Claims about the deduplicator *)

(* Claims about the locator *)

\* distance of hazard h to the driver of engine E, in millimetres
DriverDistance(E, h) == MM_PER_LAT_UNIT * Abs(h.latitude - E.latitude)

\* position of row h in the store's iteration order
StoreIndex(h) == CHOOSE i \in 1..Len(store) : store[i] = h

\* C14: find_nearby_hazards returns exactly the hazards of the store whose
\* distance to the driver is <= the engine's radius, each once, in ascending
\* order of distance, hazards at equal distance in store iteration order.
C14_Locator ==
    \A e \in Engines :
        eng[e].last_call = "find" =>
            LET found == eng[e].returned
                dist(h) == DriverDistance(eng[e], h)
            IN  /\ found = eng[e].nearby_hazards
                /\ Range(found) = {h \in Range(store) :
                                      dist(h) <= eng[e].radius_meters * MM_PER_METER}
                /\ Cardinality(Range(found)) = Len(found)
                /\ \A i, k \in 1..Len(found) :
                      i < k => \/ dist(found[i]) < dist(found[k])
                               \/ /\ dist(found[i]) = dist(found[k])
                                  /\ StoreIndex(found[i]) < StoreIndex(found[k])

\* a hazard of the store lies outside the radius, and the hazards found are
\* returned in an order that is not the store's
C14_Witness ==
    \E e \in Engines :
        /\ eng[e].last_call = "find"
        /\ \E h \in Range(store) : h \notin Range(eng[e].returned)
        /\ \E i, k \in 1..Len(eng[e].returned) :
              /\ i < k
              /\ StoreIndex(eng[e].returned[i]) > StoreIndex(eng[e].returned[k])

(* Claims about the deduplicator, continued *)

\* the type groups of more than one hazard, in the order deduplicate_hazards takes them
MultiGroups(nearby_hazards) ==
    LET order == TypeOrder(nearby_hazards)
        multi == SelectSeq(order, LAMBDA t : Len(hazards_by_type(nearby_hazards, t)) > 1)
    IN  [t \in 1..Len(multi) |-> hazards_by_type(nearby_hazards, multi[t])]

\* Reference clustering of a group g: index i is a seed iff no earlier seed is
\* within 50 m of it; a hazard belongs to the first seed within 50 m of it.
RECURSIVE IsSeed(_, _)
IsSeed(g, i) == \A k \in 1..(i - 1) : IsSeed(g, k) => ~within_dedup_distance(g[k], g[i])

SeedOf(g, i) ==
    CHOOSE k \in 1..i :
        /\ IsSeed(g, k)
        /\ k = i \/ within_dedup_distance(g[k], g[i])
        /\ \A k2 \in 1..(k - 1) : ~(IsSeed(g, k2) /\ within_dedup_distance(g[k2], g[i]))

RefClusters(g) ==
    LET idx == [i \in 1..Len(g) |-> i]
        seeds == SelectSeq(idx, LAMBDA i : IsSeed(g, i))
    IN  [c \in 1..Len(seeds) |->
            LET mem == SelectSeq(idx, LAMBDA i : SeedOf(g, i) = seeds[c])
            IN  [k \in 1..Len(mem) |-> g[mem[k]]]]

Occurrences(s, x) == Cardinality({i \in 1..Len(s) : s[i] = x})

\* C9: after deduplicate_hazards, the clusters built for each type group of more
\* than one hazard (taken in distance-to-driver order) are exactly those of the
\* reference greedy seed algorithm, and every hazard of the group lies in
\* exactly one cluster.
C9_GreedySeedClustering ==
    \A e \in Engines :
        (eng[e].last_call = "dedup" /\ eng[e].nearby_hazards # <<>>) =>
            LET groups == MultiGroups(eng[e].nearby_hazards)
                cl == eng[e].clusters
            IN  /\ Len(cl) = Len(groups)
                /\ \A t \in 1..Len(groups) :
                      /\ cl[t] = RefClusters(groups[t])
                      /\ \A i \in 1..Len(groups[t]) :
                            Occurrences(Concat(cl[t]), groups[t][i]) = 1

\* a group of three is split into two clusters, one of them with two members
C9_Witness ==
    \E e \in Engines :
        /\ eng[e].last_call = "dedup"
        /\ \E t \in 1..Len(eng[e].clusters) :
              /\ Len(eng[e].clusters[t]) = 2
              /\ \E c \in 1..2 : Len(eng[e].clusters[t][c]) = 2

\* a hazard h that is chained to the seed of cluster c through a member m of c
Chained(c, h) ==
    /\ ~within_dedup_distance(c[1], h)
    /\ \E k \in 1..Len(c) : within_dedup_distance(c[k], c[1]) /\ within_dedup_distance(c[k], h)

\* C10 as stated: a hazard more than 50 m from a cluster's seed, but within 50 m
\* of a member of that cluster which is within 50 m of the seed, is placed in
\* that cluster.
C10_TransitiveMerging ==
    \A e \in Engines :
        eng[e].last_call = "dedup" =>
            \A t \in 1..Len(eng[e].clusters) :
                LET cl == eng[e].clusters[t]
                IN  \A c \in 1..Len(cl) : \A c2 \in (c + 1)..Len(cl) :
                        \A k \in 1..Len(cl[c2]) :
                            ~Chained(cl[c], cl[c2][k])

\* C10 amended: every member of a cluster is within 50 m of the cluster's seed;
\* a hazard more than 50 m from the seed is never in the seed's cluster, also
\* when it is within 50 m of another member.
C10_MembersWithinSeedDistance ==
    \A e \in Engines :
        eng[e].last_call = "dedup" =>
            \A t \in 1..Len(eng[e].clusters) :
                \A c \in 1..Len(eng[e].clusters[t]) :
                    LET cluster == eng[e].clusters[t][c]
                    IN  \A k \in 1..Len(cluster) :
                            within_dedup_distance(cluster[1], cluster[k])

\* a chained hazard exists and sits in a later cluster of its own
C10_Witness ==
    \E e \in Engines :
        /\ eng[e].last_call = "dedup"
        /\ \E t \in 1..Len(eng[e].clusters) :
              LET cl == eng[e].clusters[t]
              IN  \E c \in 1..Len(cl) : \E c2 \in (c + 1)..Len(cl) :
                      /\ Len(cl[c]) > 1
                      /\ \E k \in 1..Len(cl[c2]) : Chained(cl[c], cl[c2][k])

\* e has just returned from deduplicate_hazards on a non-empty nearby list
Deduplicated(e) == eng[e].last_call = "dedup" /\ eng[e].nearby_hazards # <<>>

\* number of type groups of exactly one hazard
SingleGroups(nearby_hazards) ==
    Cardinality({t \in Range(TypeOrder(nearby_hazards)) :
                    Cardinality({i \in 1..Len(nearby_hazards) : nearby_hazards[i].type = t}) = 1})

\* h has the highest severity of the cluster and, among the members of that
\* severity, the latest creation time
IsBest(cluster, h) ==
    \A m \in 1..Len(cluster) :
        /\ cluster[m].severity <= h.severity
        /\ cluster[m].severity = h.severity => cluster[m].created_at <= h.created_at

\* C11: of every cluster exactly one member is kept in the deduplicated list,
\* and it is a member of maximal severity and, among those, of latest creation
\* time; the list holds one hazard per cluster and per single-hazard type group.
C11_ClusterRepresentative ==
    \A e \in Engines :
        Deduplicated(e) =>
            LET kept == eng[e].deduplicated_hazards
                cl == eng[e].clusters
            IN  /\ \A t \in 1..Len(cl) : \A c \in 1..Len(cl[t]) :
                      LET cluster == cl[t][c]
                          keptOf == {k \in 1..Len(cluster) : cluster[k] \in Range(kept)}
                      IN  /\ Cardinality(keptOf) = 1
                          /\ \A k \in keptOf : IsBest(cluster, cluster[k])
                /\ Len(kept) = Len(Concat(cl)) + SingleGroups(eng[e].nearby_hazards)

\* a cluster whose seed has severity 3 and whose other member has severity 5:
\* only the severity-5 member is kept
C11_Witness ==
    \E e \in Engines :
        /\ Deduplicated(e)
        /\ \E t \in 1..Len(eng[e].clusters) : \E c \in 1..Len(eng[e].clusters[t]) :
              LET cluster == eng[e].clusters[t][c]
              IN  /\ Len(cluster) = 2
                  /\ cluster[1].severity = 3
                  /\ cluster[2].severity = 5
                  /\ cluster[2] \in Range(eng[e].deduplicated_hazards)
                  /\ cluster[1] \notin Range(eng[e].deduplicated_hazards)

\* C12: deduplication never merges hazards of different types: the members of
\* a cluster all have one type, a hazard that is dropped lies in a cluster with
\* a kept hazard (of its own type), and a hazard that is the only one of its
\* type among the nearby hazards is kept whatever lies at the same place.
C12_TypeSeparation ==
    \A e \in Engines :
        Deduplicated(e) =>
            LET nearby == eng[e].nearby_hazards
                kept == Range(eng[e].deduplicated_hazards)
                cls == Range(Concat(eng[e].clusters))
            IN  /\ \A cluster \in cls : \A k \in 1..Len(cluster) :
                      cluster[k].type = cluster[1].type
                /\ \A i \in 1..Len(nearby) :
                      \/ nearby[i] \in kept
                      \/ \E cluster \in cls :
                            /\ nearby[i] \in Range(cluster)
                            /\ \E r \in Range(cluster) : r \in kept /\ r.type = nearby[i].type
                /\ \A i \in 1..Len(nearby) :
                      (\A k \in 1..Len(nearby) : k # i => nearby[k].type # nearby[i].type)
                          => nearby[i] \in kept

\* two hazards of different types at the same coordinates, both kept
C12_Witness ==
    \E e \in Engines :
        /\ Deduplicated(e)
        /\ Len(eng[e].nearby_hazards) = 2
        /\ eng[e].nearby_hazards[1].type # eng[e].nearby_hazards[2].type
        /\ eng[e].nearby_hazards[1].latitude = eng[e].nearby_hazards[2].latitude
        /\ eng[e].nearby_hazards[1].longitude = eng[e].nearby_hazards[2].longitude
        /\ \A i \in 1..2 : eng[e].nearby_hazards[i] \in Range(eng[e].deduplicated_hazards)

\* C13: the list returned by deduplicate_hazards never holds two hazards of the
\* same type that are within 50 m of each other.
C13_NoNearDuplicates ==
    \A e \in Engines :
        eng[e].last_call = "dedup" =>
            \A i, k \in 1..Len(eng[e].returned) :
                (i < k /\ eng[e].returned[i].type = eng[e].returned[k].type)
                    => ~within_dedup_distance(eng[e].returned[i], eng[e].returned[k])

---------------------------------------------------------------------------
(* Specifications of the dispatch: sequential runs, and two concurrent runs *)

\* stores of hazards of pairwise different types at the driver's position
DispatchStores ==
    {st \in UNION {Stores(n, TypesUsed, DispatchSeverities, {0}, {0}) : n \in 1..MaxRunHazards} :
        \A i \in 1..Len(st) : st[i].type = DispatchTypes[((i - 1) % Len(DispatchTypes)) + 1]}

Init ==
    /\ store \in DispatchStores
    /\ alertLog = <<>>
    /\ now = 0
    /\ eng = [e \in Engines |-> NoEngine]
    /\ smsLog = <<>>
    /\ voiceLog = <<>>
    /\ ussd_loaded

Step(e) ==
    \/ \E phone \in Phones : LifesaverAlertEngine(e, phone, 0, DEFAULT_RADIUS_METERS)
    \/ NextHazard(e)
    \/ \E ok \in BOOLEAN : MakeVoiceCall(e, ok)
    \/ FatigueCheck(e)
    \/ \E ok \in BOOLEAN : CreateAlertLog(e, ok)
    \/ \E r \in DispatchSmsResults : SendSmsAlert(e, r)
    \/ ReturnReport(e)

Next ==
    \/ Step("E1")
    \/ \E d \in TickSteps : Tick(d)

Spec == Init /\ [][Next]_vars

\* two requests handled concurrently over the same stores
InitConc ==
    /\ Init
    /\ Len(store) = 1

NextConc ==
    \/ \E e \in Engines : Step(e)
    \/ Tick(ALERT_COOLDOWN_MINUTES + 1)

SpecConc == InitConc /\ [][NextConc]_vars

---------------------------------------------------------------------------
(* Specification of one run of lifesaver_alert_engine over a store and an
   alert history left by earlier dispatches *)

\* AlertLog rows written for phone by earlier dispatches of the hazards ids,
\* one row per hazard, all at the present instant
HistoryOf(phone, ids) ==
    LET idseq == SelectSeq([i \in 1..Len(store) |-> i], LAMBDA i : i \in ids)
    IN  [k \in 1..Len(idseq) |-> new_alert_log(phone, idseq[k], "SMS")]

\* hazards that a dispatch can have reserved: at or above the threshold
Alertable == {store[i].id : i \in {k \in 1..Len(store) : store[k].severity >= SEVERITY_THRESHOLD}}

RunInit(stores) ==
    /\ store \in stores
    /\ now = 0
    /\ \E phone \in Phones, ids \in SUBSET Alertable : alertLog = HistoryOf(phone, ids)
    /\ eng = [e \in Engines |-> NoEngine]
    /\ smsLog = <<>>
    /\ voiceLog = <<>>
    /\ ussd_loaded

RunStores ==
    UNION {Stores(n, TypesUsed, SEVERITY_CHOICES, RunLats, {0}) : n \in 1..MaxPipelineHazards}

InitRun == RunInit(RunStores)

NextRun ==
    \/ /\ eng["E1"].pc = "new"
       /\ LifesaverAlertEngine("E1", "P1", 0, DEFAULT_RADIUS_METERS)
    \/ NextHazard("E1")
    \/ \E ok \in BOOLEAN : MakeVoiceCall("E1", ok)
    \/ FatigueCheck("E1")
    \/ \E ok \in BOOLEAN : CreateAlertLog("E1", ok)
    \/ \E r \in SmsResults : SendSmsAlert("E1", r)
    \/ ReturnReport("E1")

SpecRun == InitRun /\ [][NextRun]_vars

---------------------------------------------------------------------------
(* Specification of two drivers' requests, one run each, handled concurrently
   over the same stores *)

\* the phone number of the driver whose request e handles
PairPhone(e) == IF e = "E1" THEN "P1" ELSE "P2"

InitPair == RunInit(DispatchStores)

NextPair ==
    \/ \E e \in Engines :
          \/ /\ eng[e].pc = "new"
             /\ LifesaverAlertEngine(e, PairPhone(e), 0, DEFAULT_RADIUS_METERS)
          \/ NextHazard(e)
          \/ \E ok \in BOOLEAN : MakeVoiceCall(e, ok)
          \/ FatigueCheck(e)
          \/ \E ok \in BOOLEAN : CreateAlertLog(e, ok)
          \/ \E r \in DispatchSmsResults : SendSmsAlert(e, r)
          \/ ReturnReport(e)
    \* the history ages before the requests arrive
    \/ /\ \A e \in Engines : eng[e].pc = "new"
       /\ Tick(ALERT_COOLDOWN_MINUTES + 1)

SpecPair == InitPair /\ [][NextPair]_vars

---------------------------------------------------------------------------
(* Specification of one run over stores of several hazards of SMS severity,
   laid out on both sides of the 50 m limit *)

SmsSeverities == {2, 3}

\* the stores of n hazards
OrderStores(n) == Stores(n, TypesUsed, SmsSeverities, LatGrid, {0})

InitOrder ==
    /\ \E n \in 1..MaxHazards : store \in OrderStores(n)
    /\ alertLog = <<>>
    /\ now = 0
    /\ eng = [e \in Engines |-> NoEngine]
    /\ smsLog = <<>>
    /\ voiceLog = <<>>
    /\ ussd_loaded

NextOrder ==
    \/ /\ eng["E1"].pc = "new"
       /\ LifesaverAlertEngine("E1", "P1", 0, DEFAULT_RADIUS_METERS)
    \/ NextHazard("E1")
    \/ FatigueCheck("E1")
    \/ \E ok \in BOOLEAN : CreateAlertLog("E1", ok)
    \/ \E r \in DispatchSmsResults : SendSmsAlert("E1", r)
    \/ ReturnReport("E1")

SpecOrder == InitOrder /\ [][NextOrder]_vars

---------------------------------------------------------------------------
(* Specification of the fatigue guard called on its own, as in
   example_alert_fatigue_prevention *)

CHANNEL_CHOICES == {"SMS", "VOICE"}

\* the caller's frame after send_alert_with_fatigue_check: the arguments, the
\* time and the result of the check, and the alert_sent flag returned
guard_frame(phone, hazard_id, channel, guard) ==
    [NoEngine EXCEPT !.pc = "idle",
                     !.phone_number = phone,
                     !.last_call = "fatigue",
                     !.cur = [NoDispatch EXCEPT !.hazard_id = hazard_id,
                                                !.channel = channel,
                                                !.guard = guard,
                                                !.checked_at = now,
                                                !.done = TRUE],
                     !.returned = <<guard = "allowed">>]

\* mutant: only the rows of the requested channel count
SendAlertWithFatigueCheck_same_channel(e, phone, hazard_id, channel, ok) ==
    /\ eng[e].pc \in {"new", "idle"}
    /\ IF \E k \in 1..Len(alertLog) :
              /\ alertLog[k].phone_number = phone
              /\ alertLog[k].hazard_id = hazard_id
              /\ alertLog[k].channel = channel
              /\ alertLog[k].sent_at >= now - ALERT_COOLDOWN_MINUTES
       THEN /\ alertLog' = alertLog
            /\ eng' = [eng EXCEPT ![e] = guard_frame(phone, hazard_id, channel, "denied")]
       ELSE IF ok
       THEN /\ alertLog' = Append(alertLog, new_alert_log(phone, hazard_id, channel))
            /\ eng' = [eng EXCEPT ![e] = guard_frame(phone, hazard_id, channel, "allowed")]
       ELSE /\ alertLog' = alertLog
            /\ eng' = [eng EXCEPT ![e] = guard_frame(phone, hazard_id, channel, "error")]
    /\ Len(alertLog') <= MaxCalls
    /\ UNCHANGED <<store, now, smsLog, voiceLog, ussd_vars>>

\* send_alert_with_fatigue_check(phone_number, hazard, channel, 30), called by e
SendAlertWithFatigueCheck(e, phone, hazard_id, channel, ok) ==
    /\ eng[e].pc \in {"new", "idle"}
    /\ IF has_recent_alert(phone, hazard_id, ALERT_COOLDOWN_MINUTES)
       THEN /\ alertLog' = alertLog
            /\ eng' = [eng EXCEPT ![e] = guard_frame(phone, hazard_id, channel, "denied")]
       ELSE IF ok
       THEN /\ alertLog' = Append(alertLog, new_alert_log(phone, hazard_id, channel))
            /\ eng' = [eng EXCEPT ![e] = guard_frame(phone, hazard_id, channel, "allowed")]
       ELSE /\ alertLog' = alertLog
            /\ eng' = [eng EXCEPT ![e] = guard_frame(phone, hazard_id, channel, "error")]
    /\ Len(alertLog') <= MaxCalls
    /\ UNCHANGED <<store, now, smsLog, voiceLog, ussd_vars>>

InitGuard ==
    /\ Init
    /\ Len(store) = 1

NextGuard ==
    \/ \E e \in Engines, phone \in Phones, i \in 1..Len(store),
          channel \in CHANNEL_CHOICES, ok \in BOOLEAN :
            SendAlertWithFatigueCheck(e, phone, store[i].id, channel, ok)
    \/ \E d \in TickSteps : Tick(d)

SpecGuard == InitGuard /\ [][NextGuard]_vars

---------------------------------------------------------------------------
(* Specification of the demo endpoint: one request to demo_driver_alert *)

\* a field of the request body: <<>> when the key is missing (data.get gives
\* None), <<v>> when it holds v
RequestPhones == {<<>>, <<"">>, <<"P1">>}
RequestLatitudes == {<<>>} \cup {<<lat>> : lat \in RunLats}
RequestLongitudes == {<<>>} \cup {<<lon>> : lon \in Meridians}

Requests ==
    [phone_number : RequestPhones, latitude : RequestLatitudes, longitude : RequestLongitudes]

\* JsonResponse({'success': False, 'error': 'Missing required fields: ...'}, status=400)
InvalidInput == [success |-> FALSE, error |-> "Missing required fields", status |-> 400]

\* mutant: the coordinates are tested for truth, 0 counts as missing
missing_fields_falsy(req) ==
    \/ req.phone_number = <<>> \/ req.phone_number = <<"">>
    \/ req.latitude = <<>> \/ req.latitude = <<0>>
    \/ req.longitude = <<>> \/ req.longitude = <<0>>

\* not phone_number or latitude is None or longitude is None
missing_fields(req) ==
    \/ req.phone_number = <<>> \/ req.phone_number = <<"">>
    \/ req.latitude = <<>>
    \/ req.longitude = <<>>

\* demo_driver_alert(request): the request is validated, then the pipeline is
\* run with the default radius of the endpoint
DemoDriverAlert(e, req) ==
    /\ eng[e].pc = "new"
    /\ IF missing_fields(req)
       THEN /\ eng' = [eng EXCEPT ![e] = [NoEngine EXCEPT !.pc = "idle",
                                                           !.last_call = "rejected",
                                                           !.returned = <<InvalidInput>>]]
            /\ UNCHANGED <<store, alertLog, now, smsLog, voiceLog, ussd_vars>>
       ELSE LifesaverAlertEngine(e, req.phone_number[1], req.latitude[1],
                                 DEFAULT_RADIUS_METERS)

\* stores of hazards of any type and severity, at or near the driver
DemoStores ==
    UNION {Stores(n, TypesUsed, SEVERITY_CHOICES, RunLats, {0}) : n \in 1..MaxRunHazards}

InitDemo == RunInit(DemoStores)

NextDemo ==
    \/ \E req \in Requests : DemoDriverAlert("E1", req)
    \/ NextHazard("E1")
    \/ \E ok \in BOOLEAN : MakeVoiceCall("E1", ok)
    \/ FatigueCheck("E1")
    \/ \E ok \in BOOLEAN : CreateAlertLog("E1", ok)
    \/ \E r \in DispatchSmsResults : SendSmsAlert("E1", r)
    \/ ReturnReport("E1")

SpecDemo == InitDemo /\ [][NextDemo]_vars

---------------------------------------------------------------------------
(* Claims about the fatigue guard and the dispatcher *)

\* the alert history holds a record for (phone, hazard) sent at or after t
RecordSince(log, phone, hazard_id, t) ==
    \E k \in 1..Len(log) :
        /\ log[k].phone_number = phone
        /\ log[k].hazard_id = hazard_id
        /\ log[k].sent_at >= t

SamePair(a, b) == a.phone_number = b.phone_number /\ a.hazard_id = b.hazard_id

LastOutcome(E) == E.alerts_sent[Len(E.alerts_sent)]

\* e takes the step of its fatigue check
Checks(e) == eng[e].pc = "check" /\ eng'[e] # eng[e]

\* C1: a fatigue check made while the history holds a record of the same phone
\* and hazard with sent_at >= now - cooldown (a record exactly cooldown old
\* included) denies: the dispatch ends with a failed outcome, and no AlertRecord
\* is written.
C1_RecentRecordDenies ==
    [][\A e \in Engines :
          (/\ Checks(e)
           /\ RecordSince(alertLog, eng[e].phone_number, eng[e].cur.hazard_id,
                          now - ALERT_COOLDOWN_MINUTES))
          => /\ eng'[e].pc = "loop"
             /\ eng'[e].cur.guard = "denied"
             /\ Len(eng'[e].alerts_sent) = Len(eng[e].alerts_sent) + 1
             /\ ~LastOutcome(eng'[e]).success
             /\ alertLog' = alertLog]_vars

\* a check was denied by a record exactly cooldown old
C1_Witness ==
    \E e \in Engines :
        /\ eng[e].cur.guard = "denied"
        /\ \E k \in 1..Len(alertLog) :
              /\ alertLog[k].phone_number = eng[e].phone_number
              /\ alertLog[k].hazard_id = eng[e].cur.hazard_id
              /\ alertLog[k].sent_at = eng[e].cur.checked_at - ALERT_COOLDOWN_MINUTES
        /\ ~RecordSince(alertLog, eng[e].phone_number, eng[e].cur.hazard_id,
                        eng[e].cur.checked_at - ALERT_COOLDOWN_MINUTES + 1)

\* C2: on the SMS path the AlertRecord of an allowed check is in the history
\* when the SMS transport is invoked and stays there whatever the transport
\* answers: an engine about to send holds a reservation, and every SMS call made
\* (failed ones included) is covered by a record of its pair written no later.
C2_ReservationBeforeTransport ==
    /\ \A e \in Engines :
          eng[e].pc = "send" =>
              \E k \in 1..Len(alertLog) :
                  /\ alertLog[k].phone_number = eng[e].phone_number
                  /\ alertLog[k].hazard_id = eng[e].cur.hazard_id
                  /\ alertLog[k].sent_at >= eng[e].cur.checked_at
    /\ \A i \in 1..Len(smsLog) :
          \E k \in 1..Len(alertLog) :
              SamePair(alertLog[k], smsLog[i]) /\ alertLog[k].sent_at <= smsLog[i].at

\* the only SMS call for a pair failed, and a later check of the pair inside
\* the cooldown was denied
C2_Witness ==
    \E e \in Engines :
        /\ eng[e].cur.guard = "denied"
        /\ eng[e].cur.checked_at > 0
        /\ \E i \in 1..Len(smsLog) :
              /\ smsLog[i].phone_number = eng[e].phone_number
              /\ smsLog[i].hazard_id = eng[e].cur.hazard_id
              /\ ~smsLog[i].success
              /\ smsLog[i].at < eng[e].cur.checked_at
        /\ \A i \in 1..Len(smsLog) : ~smsLog[i].success

\* C3: a fatigue check made while every record of the pair is older than the
\* cooldown (none at all included) allows: the engine goes on to write the
\* reservation.  With a 30-minute cooldown a check at T is allowed, one at
\* T + 10 denied (C1), one at T + 31 allowed again.
C3_AllowedAfterCooldown ==
    [][\A e \in Engines :
          (/\ Checks(e)
           /\ ~RecordSince(alertLog, eng[e].phone_number, eng[e].cur.hazard_id,
                           now - ALERT_COOLDOWN_MINUTES))
          => /\ eng'[e].pc = "create"
             /\ eng'[e].cur.guard = "none"
             /\ eng'[e].alerts_sent = eng[e].alerts_sent]_vars

\* two reservations of one pair, the second 31 minutes after the first
C3_Witness ==
    \E i, k \in 1..Len(alertLog) :
        /\ i < k
        /\ SamePair(alertLog[i], alertLog[k])
        /\ alertLog[k].sent_at = alertLog[i].sent_at + ALERT_COOLDOWN_MINUTES + 1

\* C4: the check and the write of the reservation are separate steps: an engine
\* that passed the check writes its AlertRecord and goes on to the transport
\* whatever has been written since, so two concurrent dispatches of one
\* (phone, hazard) pair can both be allowed, both call the transport and leave
\* two records inside one cooldown window.
C4_CheckThenActNotAtomic ==
    [][\A e \in Engines :
          (eng[e].pc = "create" /\ eng'[e] # eng[e] /\ eng'[e].cur.guard # "error")
          => /\ eng'[e].pc = "send"
             /\ eng'[e].cur.guard = "allowed"
             /\ alertLog' = Append(alertLog,
                     new_alert_log(eng[e].phone_number, eng[e].cur.hazard_id, "SMS"))]_vars

\* both engines were allowed and called the SMS transport for the same pair,
\* and the pair has two records less than a cooldown apart
C4_Witness ==
    /\ eng["E1"].phone_number = eng["E2"].phone_number
    /\ \A e \in Engines :
          /\ eng[e].cur.hazard_id = eng["E1"].cur.hazard_id
          /\ eng[e].cur.guard = "allowed"
          /\ eng[e].cur.sms_calls = 1
          /\ eng[e].cur.done
    /\ Len(smsLog) = 2
    /\ \E i, k \in 1..Len(alertLog) :
          /\ i < k
          /\ SamePair(alertLog[i], alertLog[k])
          /\ alertLog[i].phone_number = eng["E1"].phone_number
          /\ alertLog[i].hazard_id = eng["E1"].cur.hazard_id
          /\ alertLog[k].sent_at - alertLog[i].sent_at < ALERT_COOLDOWN_MINUTES

\* the calls made to the transports (SMS and voice)
Notifications == smsLog \o [i \in 1..Len(voiceLog) |-> voiceLog[i] @@ [success |-> TRUE]]

Outcomes == UNION {Range(eng[e].alerts_sent) : e \in Engines}

C7_VoiceFallback ==
    /\ \A o \in Outcomes :
          o.trace.channel = "VOICE" =>
              /\ o.trace.voice \in {"ok", "fail"}
              /\ (o.trace.guard # "none") <=> (o.trace.voice = "fail")
              /\ o.success <=> (o.trace.voice = "ok" \/ o.trace.sms = "ok")
    /\ \A e \in Engines :
          (eng[e].cur.channel = "VOICE" /\ eng[e].pc \in {"check", "create", "send"})
              => eng[e].cur.voice = "fail"

\* a failed voice call whose fallback SMS was suppressed by the guard
C7_Witness ==
    \E o \in Outcomes :
        /\ o.trace.channel = "VOICE"
        /\ o.trace.voice = "fail"
        /\ o.trace.guard = "denied"
        /\ ~o.success

\* C8: on the SMS path a denied check gives a failed outcome without any call
\* of the SMS transport; an allowed check is followed by exactly one call, and
\* the outcome's success flag is the transport's.
C8_SmsPath ==
    \A o \in Outcomes :
        /\ o.trace.guard = "denied" => (~o.success /\ o.trace.sms_calls = 0)
        /\ o.trace.guard = "allowed" =>
              /\ o.trace.sms_calls = 1
              /\ o.success <=> (o.trace.sms = "ok")
        /\ o.trace.sms_calls > 0 => o.trace.guard = "allowed"

\* an SMS hazard whose transport call failed after an allowed check
C8_Witness ==
    \E o \in Outcomes :
        /\ o.trace.channel = "SMS"
        /\ o.trace.guard = "allowed"
        /\ o.trace.sms_calls = 1
        /\ o.trace.sms = "fail"
        /\ ~o.success

---------------------------------------------------------------------------
(* Claims about the severity filter, the channel selector and the orchestrator *)

\* severity of the store's hazard with this id
SeverityOf(hazard_id) == (CHOOSE h \in Range(store) : h.id = hazard_id).severity

\* e has returned from a run of process_alerts
RunDone(e) == eng[e].last_call = "process" /\ eng[e].pc = "idle"

\* the report returned by the run of e
ReportOf(e) == eng[e].returned[1]

\* C15: a hazard of severity 1 is never among a run's hazards or outcomes and
\* never causes a voice call, an SMS send or an AlertLog row, wherever it lies;
\* every hazard and outcome of a report has severity >= 2.
C15_SeverityFilter ==
    /\ \A e \in Engines :
          /\ \A i \in 1..Len(eng[e].hazards_to_alert) :
                eng[e].hazards_to_alert[i].severity >= SEVERITY_THRESHOLD
          /\ \A i \in 1..Len(eng[e].alerts_sent) :
                /\ eng[e].alerts_sent[i].severity >= SEVERITY_THRESHOLD
                /\ SeverityOf(eng[e].alerts_sent[i].hazard_id) >= SEVERITY_THRESHOLD
          /\ eng[e].cur.hazard_id # 0 => SeverityOf(eng[e].cur.hazard_id) >= SEVERITY_THRESHOLD
          /\ RunDone(e) =>
                /\ \A i \in 1..Len(ReportOf(e).hazards) :
                      ReportOf(e).hazards[i].severity >= SEVERITY_THRESHOLD
                /\ \A i \in 1..Len(ReportOf(e).alerts) :
                      ReportOf(e).alerts[i].severity >= SEVERITY_THRESHOLD
    /\ \A i \in 1..Len(voiceLog) : SeverityOf(voiceLog[i].hazard_id) >= SEVERITY_THRESHOLD
    /\ \A i \in 1..Len(smsLog) : SeverityOf(smsLog[i].hazard_id) >= SEVERITY_THRESHOLD
    /\ \A i \in 1..Len(alertLog) : SeverityOf(alertLog[i].hazard_id) >= SEVERITY_THRESHOLD

\* the closest hazard found has severity 1 and survives deduplication; the run
\* is over, it alerted the other hazard and made no outcome for the closest
C15_Witness ==
    \E e \in Engines :
        /\ RunDone(e)
        /\ Len(eng[e].nearby_hazards) = 2
        /\ eng[e].nearby_hazards[1].severity = 1
        /\ DriverDistance(eng[e], eng[e].nearby_hazards[1])
              < DriverDistance(eng[e], eng[e].nearby_hazards[2])
        /\ eng[e].nearby_hazards[1] \in Range(eng[e].deduplicated_hazards)
        /\ Len(ReportOf(e).alerts) = 1
        /\ ReportOf(e).alerts[1].hazard_id = eng[e].nearby_hazards[2].id

\* e takes the step that selects the channel of its next hazard
Selects(e) == eng[e].pc = "loop" /\ eng'[e].pos = eng[e].pos + 1

\* C16: the channel selected for a hazard is VOICE exactly when its severity is
\* >= 4 and SMS when it is 2 or 3, whatever its type, its place and the alert
\* history; selecting changes neither the stores nor the transports nor the
\* engine's lists.
C16_ChannelMapping ==
    [][\A e \in Engines :
          Selects(e) =>
              LET h == eng[e].hazards_to_alert[eng'[e].pos]
                  channel == eng'[e].cur.channel
              IN  /\ h.severity \in VOICE_SEVERITY..5 => channel = "VOICE"
                  /\ h.severity \in SEVERITY_THRESHOLD..(VOICE_SEVERITY - 1) => channel = "SMS"
                  /\ channel \in {"VOICE", "SMS"}
                  /\ UNCHANGED <<store, alertLog, now, smsLog, voiceLog>>
                  /\ eng'[e].hazards_to_alert = eng[e].hazards_to_alert
                  /\ eng'[e].alerts_sent = eng[e].alerts_sent
                  /\ eng'[e].nearby_hazards = eng[e].nearby_hazards
                  /\ eng'[e].deduplicated_hazards = eng[e].deduplicated_hazards]_vars

\* one run selected SMS for a hazard of severity 3 and VOICE for one of severity 4
C16_Witness ==
    \E e \in Engines :
        \E i, k \in 1..Len(eng[e].alerts_sent) :
            /\ eng[e].alerts_sent[i].severity = 3
            /\ eng[e].alerts_sent[i].trace.channel = "SMS"
            /\ eng[e].alerts_sent[k].severity = 4
            /\ eng[e].alerts_sent[k].trace.channel = "VOICE"

\* the hazards of the deduplicated list that pass the severity threshold
Surviving(E) ==
    SelectSeq(E.deduplicated_hazards, LAMBDA h : h.severity >= SEVERITY_THRESHOLD)

\* the dispatch behind outcome o reached a transport or the fatigue guard
Dispatched(o) == o.trace.voice # "none" \/ o.trace.guard # "none"

\* C17: a run of lifesaver_alert_engine makes one outcome per hazard that
\* survived deduplication and the severity filter, in the order of the
\* deduplicated list: while it runs the outcomes are those of the first
\* surviving hazards, when it returns there is one for each, whatever the
\* earlier dispatches gave (failed, suppressed or errored).
C17_NoEarlyTermination ==
    \A e \in Engines :
        eng[e].last_call = "process" =>
            LET expected == Surviving(eng[e])
                alerts == eng[e].alerts_sent
            IN  /\ Len(alerts) <= Len(expected)
                /\ \A i \in 1..Len(alerts) :
                      /\ alerts[i].hazard_id = expected[i].id
                      /\ Dispatched(alerts[i])
                /\ RunDone(e) =>
                      /\ Len(alerts) = Len(expected)
                      /\ ReportOf(e).alerts = alerts
                      /\ ReportOf(e).hazards = expected

\* a finished run whose first dispatch was suppressed by the fatigue guard and
\* whose second dispatch succeeded
C17_Witness ==
    \E e \in Engines :
        /\ RunDone(e)
        /\ Len(eng[e].alerts_sent) = 2
        /\ eng[e].alerts_sent[1].trace.guard = "denied"
        /\ ~eng[e].alerts_sent[1].success
        /\ eng[e].alerts_sent[2].success

\* number of calls of a transport made for a hazard
CallsFor(log, hazard_id) == Cardinality({i \in 1..Len(log) : log[i].hazard_id = hazard_id})

\* C18: within one run every hazard is attempted once: no hazard id occurs
\* twice among the outcomes, and at most one voice call and at most one SMS
\* send are made for a hazard, also when they fail.
C18_NoRetry ==
    /\ \A e \in Engines :
          \A i, k \in 1..Len(eng[e].alerts_sent) :
              /\ i # k => eng[e].alerts_sent[i].hazard_id # eng[e].alerts_sent[k].hazard_id
              /\ eng[e].alerts_sent[i].trace.sms_calls <= 1
    /\ \A h \in Range(store) :
          /\ CallsFor(voiceLog, h.id) <= 1
          /\ CallsFor(smsLog, h.id) <= 1

\* a finished run in which the voice call and the fallback SMS of a hazard both
\* failed: one call of each transport was made for it
C18_Witness ==
    \E e \in Engines :
        /\ RunDone(e)
        /\ \E i \in 1..Len(eng[e].alerts_sent) :
              LET o == eng[e].alerts_sent[i]
              IN  /\ ~o.success
                  /\ o.trace.voice = "fail"
                  /\ o.trace.sms = "fail"
                  /\ CallsFor(voiceLog, o.hazard_id) = 1
                  /\ CallsFor(smsLog, o.hazard_id) = 1

\* C19: the 'alerts_sent' value of a run's report is the number of alerts that
\* were sent: the outcomes with success, not the suppressed or failed ones.
C19_NotifiedCount ==
    \A e \in Engines :
        RunDone(e) =>
            ReportOf(e).alerts_sent =
                Cardinality({i \in 1..Len(ReportOf(e).alerts) : ReportOf(e).alerts[i].success})

\* e takes the step in which AlertLog.objects.create raises
CreateFails(e) == eng[e].pc = "create" /\ eng'[e].cur.guard = "error"

\* C20: when the creation of the AlertLog row fails, no row is added, the SMS
\* transport is not called, the dispatch ends with a failed outcome, and the
\* engine is back in its loop with the remaining hazards still to come.
C20_HistoryWriteFailure ==
    [][\A e \in Engines :
          CreateFails(e) =>
              /\ alertLog' = alertLog
              /\ smsLog' = smsLog
              /\ eng'[e].pc = "loop"
              /\ eng'[e].pos = eng[e].pos
              /\ eng'[e].hazards_to_alert = eng[e].hazards_to_alert
              /\ Len(eng'[e].alerts_sent) = Len(eng[e].alerts_sent) + 1
              /\ LastOutcome(eng'[e]).hazard_id = eng[e].cur.hazard_id
              /\ ~LastOutcome(eng'[e]).success
              /\ LastOutcome(eng'[e]).trace.sms_calls = 0]_vars

\* a finished run whose first dispatch failed at the write of the AlertLog row,
\* without a row or an SMS call for that hazard, and whose second hazard was
\* dispatched
C20_Witness ==
    \E e \in Engines :
        /\ RunDone(e)
        /\ Len(eng[e].alerts_sent) = 2
        /\ eng[e].alerts_sent[1].trace.guard = "error"
        /\ ~eng[e].alerts_sent[1].success
        /\ CallsFor(smsLog, eng[e].alerts_sent[1].hazard_id) = 0
        /\ CallsFor(alertLog, eng[e].alerts_sent[1].hazard_id) = 0
        /\ Dispatched(eng[e].alerts_sent[2])

\* e takes the step in which send_sms_alert is called
Sends(e) == eng[e].pc = "send" /\ eng'[e] # eng[e]

\* C21: every call of send_sms_alert returns: the dispatch ends with an outcome
\* and the engine is back in its loop at the same position; when the transport
\* is not configured, raises, or reports a recipient-level failure, the outcome
\* is a failed one carrying the message of that failure, and no record is
\* added or removed.
C21_TransportFailure ==
    [][\A e \in Engines :
          Sends(e) =>
              /\ eng'[e].pc = "loop"
              /\ eng'[e].pos = eng[e].pos
              /\ eng'[e].hazards_to_alert = eng[e].hazards_to_alert
              /\ Len(eng'[e].alerts_sent) = Len(eng[e].alerts_sent) + 1
              /\ alertLog' = alertLog
              /\ LET o == LastOutcome(eng'[e])
                 IN  /\ o.hazard_id = eng[e].cur.hazard_id
                     /\ \E r \in SmsResults :
                           /\ o.message = message_of(eng[e].cur, sms_message(r))
                           /\ o.success <=> (r = "Success")
                     /\ o.success <=> smsLog'[Len(smsLog')].success]_vars

\* a finished run whose first dispatch failed because sms_client.send raised and
\* whose second hazard was dispatched
C21_Witness ==
    \E e \in Engines :
        /\ RunDone(e)
        /\ Len(eng[e].alerts_sent) = 2
        /\ ~eng[e].alerts_sent[1].success
        /\ eng[e].alerts_sent[1].message
              = message_of(eng[e].alerts_sent[1].trace, sms_message("Raised"))
        /\ Dispatched(eng[e].alerts_sent[2])

---------------------------------------------------------------------------
(* Claims about the demo endpoint *)

\* the request lacks the phone number, the latitude or the longitude
Lacks(req) ==
    \/ req.phone_number \in {<<>>, <<"">>}
    \/ req.latitude = <<>>
    \/ req.longitude = <<>>

\* C22: a request that lacks the phone number, the latitude or the longitude is
\* answered with the invalid-input result and nothing else happens: no engine
\* is made, no hazard is read, no transport is called, no AlertLog row is
\* written; every other request, a latitude or longitude of 0 included,
\* starts the pipeline with the request's phone number and latitude.
C22_MalformedInput ==
    [][\A e \in Engines : \A req \in Requests :
          DemoDriverAlert(e, req) =>
              IF Lacks(req)
              THEN /\ eng'[e].returned = <<InvalidInput>>
                   /\ eng'[e].pc = "idle"
                   /\ eng'[e].nearby_hazards = <<>>
                   /\ eng'[e].hazards_to_alert = <<>>
                   /\ UNCHANGED <<store, alertLog, smsLog, voiceLog>>
              ELSE /\ eng'[e].pc = "loop"
                   /\ eng'[e].phone_number = req.phone_number[1]
                   /\ eng'[e].latitude = req.latitude[1]
                   /\ eng'[e].returned # <<InvalidInput>>]_vars

\* a request was rejected while the store holds a hazard that a run would have
\* found: nothing was called and nothing was written
C22_Witness ==
    \E e \in Engines :
        /\ eng[e].last_call = "rejected"
        /\ eng[e].returned = <<InvalidInput>>
        /\ \E h \in Range(store) : h.severity >= SEVERITY_THRESHOLD
        /\ smsLog = <<>>
        /\ voiceLog = <<>>
        /\ eng[e].nearby_hazards = <<>>

---------------------------------------------------------------------------
(* Claims about the stores *)

\* C23: no step of a pipeline run changes or deletes a Hazard, and the alert
\* history changes only by a row appended at its end: every AlertLog row that
\* was there stays, unchanged.
C23_StoreFrame ==
    [][/\ store' = store
       /\ Len(alertLog') >= Len(alertLog)
       /\ SubSeq(alertLog', 1, Len(alertLog)) = alertLog]_vars

\* a run has ended after writing a second row for a pair whose first row is
\* older than the cooldown and still there
C23_Witness ==
    \E e \in Engines :
        /\ RunDone(e)
        /\ Len(alertLog) = 2
        /\ SamePairRow(alertLog[1], alertLog[2])
        /\ alertLog[1].sent_at = 0
        /\ alertLog[2].sent_at > ALERT_COOLDOWN_MINUTES
        /\ alertLog[2].phone_number = eng[e].phone_number

\* C24: the guard is per (phone, hazard) pair: a fatigue check denies only
\* when the history holds a row of the same phone and the same hazard; rows of
\* another phone for the hazard, or of the phone for another hazard, never
\* deny.
C24_PerPairGuard ==
    [][\A e \in Engines :
          (Checks(e) /\ eng'[e].cur.guard = "denied")
          => \E k \in 1..Len(alertLog) :
                /\ alertLog[k].phone_number = eng[e].phone_number
                /\ alertLog[k].hazard_id = eng[e].cur.hazard_id]_vars

\* the history held a row of another phone for the first hazard; the run was
\* allowed to alert its phone about that hazard and then, with its own row for
\* the first hazard written, about the second hazard too
C24_Witness ==
    \E e \in Engines :
        /\ RunDone(e)
        /\ Len(eng[e].alerts_sent) = 2
        /\ \A i \in 1..2 : eng[e].alerts_sent[i].trace.guard = "allowed"
        /\ Len(alertLog) = 3
        /\ alertLog[1].phone_number # eng[e].phone_number
        /\ alertLog[1].hazard_id = eng[e].alerts_sent[1].hazard_id
        /\ alertLog[2].phone_number = eng[e].phone_number
        /\ alertLog[2].hazard_id = eng[e].alerts_sent[1].hazard_id
        /\ alertLog[3].phone_number = eng[e].phone_number
        /\ alertLog[3].hazard_id = eng[e].alerts_sent[2].hazard_id

\* e returns from a direct call of send_alert_with_fatigue_check
Guards(e) == eng'[e].last_call = "fatigue" /\ eng'[e] # eng[e]

\* C25: the fatigue check does not look at the channel of the rows: a call for
\* (phone, hazard) made while a row of the pair with the other channel is
\* inside the cooldown is denied and writes nothing, a VOICE row denying an
\* SMS reservation and an SMS row a VOICE one.
C25_ChannelAgnostic ==
    [][\A e \in Engines :
          (/\ Guards(e)
           /\ \E k \in 1..Len(alertLog) :
                 /\ alertLog[k].phone_number = eng'[e].phone_number
                 /\ alertLog[k].hazard_id = eng'[e].cur.hazard_id
                 /\ alertLog[k].channel # eng'[e].cur.channel
                 /\ alertLog[k].sent_at >= now - ALERT_COOLDOWN_MINUTES)
          => /\ eng'[e].cur.guard = "denied"
             /\ eng'[e].returned = <<FALSE>>
             /\ alertLog' = alertLog]_vars

\* one caller's SMS reservation was denied by a VOICE row, the other caller's
\* VOICE reservation by an SMS row; each pair has that one row only
C25_Witness ==
    /\ eng["E1"].last_call = "fatigue"
    /\ eng["E2"].last_call = "fatigue"
    /\ eng["E1"].cur.channel = "SMS"
    /\ eng["E2"].cur.channel = "VOICE"
    /\ \A e \in Engines :
          /\ eng[e].cur.guard = "denied"
          /\ \E k \in 1..Len(alertLog) :
                /\ alertLog[k].phone_number = eng[e].phone_number
                /\ alertLog[k].hazard_id = eng[e].cur.hazard_id
          /\ \A k \in 1..Len(alertLog) :
                (/\ alertLog[k].phone_number = eng[e].phone_number
                 /\ alertLog[k].hazard_id = eng[e].cur.hazard_id)
                    => alertLog[k].channel # eng[e].cur.channel

---------------------------------------------------------------------------
(* Claims about concurrent runs *)

\* the outcomes of e for which an AlertLog row was written
Reserved(e) == SelectSeq(eng[e].alerts_sent, LAMBDA o : o.trace.guard = "allowed")

\* the number of rows e has written: one per reserved outcome, and one for the
\* dispatch whose SMS is still to be sent
WrittenBy(e) == Len(Reserved(e)) + (IF eng[e].pc = "send" THEN 1 ELSE 0)

\* the history the runs started from, and the rows written since
HistoryLen == Len(alertLog) - WrittenBy("E1") - WrittenBy("E2")
History == SubSeq(alertLog, 1, HistoryLen)
Written == SubSeq(alertLog, HistoryLen + 1, Len(alertLog))

\* the hazards a run of e's request alone alerts for
SoloHazards(e) ==
    begin_process(new_engine(eng[e].phone_number, eng[e].latitude,
                             DEFAULT_RADIUS_METERS)).hazards_to_alert

\* C26: two runs with different phone numbers, interleaved in any way over the
\* same stores, each give the report and write the AlertLog rows of the run
\* executed alone on the history they started from with the same transport
\* answers: the run's hazards are those of the store, a check is denied exactly
\* when the starting history holds a row of the run's phone and the hazard
\* inside the cooldown, and the rows written for the run's phone are those of
\* its reserved outcomes, in order.
C26_DriverIndependence ==
    \A e \in Engines :
        RunDone(e) =>
            /\ ReportOf(e).hazards = SoloHazards(e)
            /\ ReportOf(e).alerts = eng[e].alerts_sent
            /\ Len(eng[e].alerts_sent) = Len(SoloHazards(e))
            /\ \A k \in 1..Len(eng[e].alerts_sent) :
                  LET o == eng[e].alerts_sent[k]
                  IN  /\ o.hazard_id = SoloHazards(e)[k].id
                      /\ o.trace.guard # "none" =>
                            ((o.trace.guard = "denied") <=>
                                RecordSince(History, eng[e].phone_number, o.hazard_id,
                                            o.trace.checked_at - ALERT_COOLDOWN_MINUTES))
            /\ LET rows == SelectSeq(Written,
                                     LAMBDA row : row.phone_number = eng[e].phone_number)
               IN  /\ Len(rows) = Len(Reserved(e))
                   /\ \A k \in 1..Len(rows) :
                         /\ rows[k].hazard_id = Reserved(e)[k].hazard_id
                         /\ rows[k].channel = "SMS"

\* both runs are done; they reserved the same hazard at the same instant, the
\* rows were written in one order and the SMS sent in the other, and the
\* starting history held a row of that hazard for neither phone
C26_Witness ==
    /\ RunDone("E1") /\ RunDone("E2")
    /\ eng["E1"].phone_number # eng["E2"].phone_number
    /\ \E i \in 1..Len(Written), j \in 1..Len(Written), a \in 1..Len(smsLog), b \in 1..Len(smsLog) :
          /\ i < j /\ a < b
          /\ Written[i].hazard_id = Written[j].hazard_id
          /\ Written[i].sent_at = Written[j].sent_at
          /\ Written[i].phone_number = "P1" /\ Written[j].phone_number = "P2"
          /\ smsLog[a].phone_number = "P2" /\ smsLog[b].phone_number = "P1"
          /\ smsLog[a].hazard_id = Written[i].hazard_id
          /\ smsLog[b].hazard_id = Written[i].hazard_id

---------------------------------------------------------------------------
(* Claims about the search radius *)

\* C27: the engine constructed with a radius has that radius, a radius of 0
\* included; it has the default of 300 m only when constructed without one.
C27_SearchRadius ==
    [][\A e \in Engines, phone \in Phones, lat \in DriverLats, radius \in RadiusInputs :
          Construct(e, phone, lat, radius) =>
              eng'[e].radius_meters =
                  IF radius = NO_RADIUS THEN DEFAULT_RADIUS_METERS ELSE radius]_vars

---------------------------------------------------------------------------
(* Claims about the thresholds printed by the demo *)

\* the outcomes of e for the hazard h
OutcomesFor(e, h) ==
    {k \in 1..Len(eng[e].alerts_sent) : eng[e].alerts_sent[k].hazard_id = h.id}

---------------------------------------------------------------------------
(* Claims about the USSD reporting flow *)

USSD_STATES == {STATE_MENU, STATE_HAZARD_TYPE, STATE_CONFIRM}

\* the phone number ussd_webhook read from the last request, if it read one
Caller == ussd_call.phone_number

\* C29: after ussd_webhook answered END, ussd_sessions holds no session for the
\* request's phone number; after it answered CON, it holds one, whose state is
\* menu, hazard_type or confirm.
C29_SessionEnd ==
    /\ (ussd_call.response.kind = "END" /\ Caller # <<>>) =>
            ussd_sessions[Caller[1]] = <<>>
    /\ ussd_call.response.kind = "CON" =>
            /\ Caller # <<>>
            /\ ussd_sessions[Caller[1]] # <<>>
            /\ ussd_sessions[Caller[1]][1].state \in USSD_STATES
    /\ ussd_call.response.kind \in {"none", "CON", "END"}
    /\ \A p \in UssdPhones :
          ussd_sessions[p] # <<>> => ussd_sessions[p][1].state \in USSD_STATES

\* P1 left by Exit from the main menu (END, its session is gone) while P2's
\* session waits in the confirm state
C29_Witness ==
    /\ Caller = <<"P1">>
    /\ ussd_call.state = STATE_MENU
    /\ ussd_call.response = Response("END", "Thank you for using SafeRoute!", <<>>)
    /\ ussd_sessions["P1"] = <<>>
    /\ ussd_sessions["P2"] # <<>>
    /\ ussd_sessions["P2"][1].state = STATE_CONFIRM

\* the hazard type a key of the hazard menu stands for
TypeOfKey ==
    [k \in {"1", "2", "3", "4"} |->
        CASE k = "1" -> "ACCIDENT" [] k = "2" -> "BAD_ROAD"
          [] k = "3" -> "PEDESTRIANS" [] k = "4" -> "BLACKSPOT"]

\* the hazard type held by the session of phone p in sessions, if any
ChosenType(sessions, p) ==
    IF sessions[p] = <<>> THEN <<>> ELSE sessions[p][1].data.hazard_type

\* C30: a Report row is created only by a request handled in the confirm state
\* whose last input is '1'; the row carries the request's phone number and the
\* hazard type of that phone's session, which is set only by a hazard-type
\* selection of that phone (keys 1 to 4 in the hazard_type state) and is one of
\* the four types; no request changes or removes a row.
C30_ReportCreation ==
    [][/\ Len(reports') >= Len(reports)
       /\ SubSeq(reports', 1, Len(reports)) = reports
       /\ reports' # reports =>
            /\ Len(reports') = Len(reports) + 1
            /\ ussd_call'.state = STATE_CONFIRM
            /\ last_input(ussd_call'.user_input) = "1"
            /\ LET row == reports'[Len(reports')]
                   p == ussd_call'.phone_number[1]
               IN  /\ p \in Phones
                   /\ row.phone_number = p
                   /\ ussd_sessions[p] # <<>>
                   /\ ussd_sessions[p][1].state = STATE_CONFIRM
                   /\ <<row.hazard_type>> = ChosenType(ussd_sessions, p)
                   /\ row.hazard_type \in HAZARD_TYPES
       /\ \A p \in UssdPhones :
            (/\ ChosenType(ussd_sessions', p) # ChosenType(ussd_sessions, p)
             /\ ChosenType(ussd_sessions', p) # <<>>) =>
                /\ ussd_call'.phone_number = <<p>>
                /\ ussd_call'.state = STATE_HAZARD_TYPE
                /\ last_input(ussd_call'.user_input) \in DOMAIN TypeOfKey
                /\ ChosenType(ussd_sessions', p) =
                      <<TypeOfKey[last_input(ussd_call'.user_input)]>>]_vars

\* P1's report of a bad road was just created by a text whose last part is 1,
\* while P2's session waits in the confirm state with another type
C30_Witness ==
    /\ Len(reports) = 1
    /\ reports[1].phone_number = "P1"
    /\ reports[1].hazard_type = "BAD_ROAD"
    /\ Caller = <<"P1">>
    /\ ussd_call.state = STATE_CONFIRM
    /\ Len(ussd_call.user_input) > 1
    /\ ussd_call.response = Response("END", "Thank you!", <<"BAD_ROAD">>)
    /\ ChosenType(ussd_sessions, "P2") = <<"ACCIDENT">>
    /\ ussd_sessions["P2"][1].state = STATE_CONFIRM

\* the last request was read, came from a phone number and had the text t
Asked(t) ==
    /\ Caller # <<>>
    /\ Caller[1] # ""
    /\ ussd_call.user_input = t

\* C31: a request with empty text is answered with the main menu, whatever the
\* requests of that phone number before it, a session left in the hazard_type
\* or confirm state included.
C31_InitialRequest ==
    Asked(<<"">>) => ussd_call.response = build_main_menu

\* the last request was a 0 in the hazard-type menu (Back) or at the
\* confirmation (Cancel), and the session goes on
WentBack ==
    /\ ussd_call.state \in {STATE_HAZARD_TYPE, STATE_CONFIRM}
    /\ ussd_call.response.kind = "CON"
    /\ last_input(ussd_call.user_input) = "0"

\* C32: with the text of a request being the joined history of the inputs of
\* the gateway session, a user who went Back from the hazard-type menu or
\* cancelled at the confirmation and then enters 1 is shown the hazard-type
\* menu, and the session is in the hazard_type state.
C32_ReEntry ==
    [][(/\ WentBack
        /\ ussd_call'.user_input = Append(ussd_call.user_input, "1"))
       => /\ ussd_call'.response = build_hazard_menu
          /\ ussd_sessions'[GatewayPhone] # <<>>
          /\ ussd_sessions'[GatewayPhone][1].state = STATE_HAZARD_TYPE]_vars

---------------------------------------------------------------------------
(* Claims about the order and the shape of the deduplicated list *)

\* the run of e has found, deduplicated and filtered
Processing(e) == eng[e].last_call = "process"

\* index of the first hazard of type t in the list
FirstOfType(hazards, t) ==
    CHOOSE i \in 1..Len(hazards) :
        /\ hazards[i].type = t
        /\ \A k \in 1..(i - 1) : hazards[k].type # t

\* the hazards of the type of h in the list, in list order, and the place of h
\* among them
SameType(hazards, h) == SelectSeq(hazards, LAMBDA x : x.type = h.type)
PlaceIn(g, h) == CHOOSE i \in 1..Len(g) : g[i] = h

\* the place, in the type group of h, of the seed of the cluster of h
SeedPlace(hazards, h) ==
    LET g == SameType(hazards, h) IN SeedOf(g, PlaceIn(g, h))

\* C33: the deduplicated list holds the representatives type by type, the types
\* in the order of their first hazard in the distance-ordered nearby list and,
\* within a type, in the order of the seeds of their clusters; the run
\* dispatches the hazards of the list in that order, which need not be the
\* order of distance.
C33_DedupOrder ==
    \A e \in Engines :
        Processing(e) =>
            LET nearby == eng[e].nearby_hazards
                kept == eng[e].deduplicated_hazards
                todo == SelectSeq(kept, LAMBDA h : h.severity >= SEVERITY_THRESHOLD)
                sent == eng[e].alerts_sent
            IN  /\ \A i \in 1..Len(kept) : \A j \in (i + 1)..Len(kept) :
                      IF kept[i].type # kept[j].type
                      THEN FirstOfType(nearby, kept[i].type) < FirstOfType(nearby, kept[j].type)
                      ELSE SeedPlace(nearby, kept[i]) < SeedPlace(nearby, kept[j])
                /\ eng[e].hazards_to_alert = todo
                /\ Len(sent) <= Len(todo)
                /\ \A k \in 1..Len(sent) : sent[k].hazard_id = todo[k].id
                /\ RunDone(e) => Len(sent) = Len(todo) /\ ReportOf(e).hazards = todo

\* a finished run dispatched three hazards, the second farther from the driver
\* than the third: two clusters of one type, then the other type
C33_Witness ==
    /\ RunDone("E1")
    /\ Len(eng["E1"].alerts_sent) = 3
    /\ LET h == ReportOf("E1").hazards
       IN  /\ h[1].type = h[2].type
           /\ h[2].type # h[3].type
           /\ DriverDistance(eng["E1"], h[2]) > DriverDistance(eng["E1"], h[3])
           /\ \A k \in 1..3 : eng["E1"].alerts_sent[k].hazard_id = h[k].id

\* the types of the hazards of a list
TypesOf(hazards) == {hazards[i].type : i \in 1..Len(hazards)}

\* C34: the deduplicated list holds no hazard twice, holds only nearby hazards
\* and holds a hazard of every type present among them, so that the number of
\* nearby types <= its length <= the number of nearby hazards; the report of a
\* fresh engine has alerts_sent <= deduplicated <= nearby_hazards.
C34_DedupShape ==
    \A e \in Engines :
        Processing(e) =>
            LET nearby == eng[e].nearby_hazards
                kept == eng[e].deduplicated_hazards
            IN  /\ \A i \in 1..Len(kept) : \A j \in (i + 1)..Len(kept) :
                      kept[i].id # kept[j].id
                /\ \A i \in 1..Len(kept) : kept[i] \in Range(nearby)
                /\ TypesOf(kept) = TypesOf(nearby)
                /\ Cardinality(TypesOf(nearby)) <= Len(kept)
                /\ Len(kept) <= Len(nearby)
                /\ RunDone(e) =>
                      /\ ReportOf(e).nearby_hazards = Len(nearby)
                      /\ ReportOf(e).deduplicated = Len(kept)
                      /\ ReportOf(e).alerts_sent <= ReportOf(e).deduplicated
                      /\ ReportOf(e).deduplicated <= ReportOf(e).nearby_hazards

\* a finished run over three nearby hazards of one type in two clusters: one
\* type, two hazards kept, three found
C34_Witness ==
    /\ RunDone("E1")
    /\ Cardinality(TypesOf(eng["E1"].nearby_hazards)) = 1
    /\ ReportOf("E1").deduplicated = 2
    /\ ReportOf("E1").nearby_hazards = 3
    /\ ReportOf("E1").alerts_sent = 2

---------------------------------------------------------------------------
(* Specification of one run over stores of hazards on both sides of the voice
   severity, laid out on both sides of the 50 m limit *)

\* the stores of n hazards
UrgencyStores(n) == Stores(n, TypesUsed, SeveritiesUsed, LatGrid, {0})

InitUrgency ==
    /\ \E n \in 1..MaxPipelineHazards : store \in UrgencyStores(n)
    /\ alertLog = <<>>
    /\ now = 0
    /\ eng = [e \in Engines |-> NoEngine]
    /\ smsLog = <<>>
    /\ voiceLog = <<>>
    /\ ussd_loaded

NextUrgency ==
    \/ /\ eng["E1"].pc = "new"
       /\ LifesaverAlertEngine("E1", "P1", 0, DEFAULT_RADIUS_METERS)
    \/ NextHazard("E1")
    \/ \E ok \in BOOLEAN : MakeVoiceCall("E1", ok)
    \/ FatigueCheck("E1")
    \/ \E ok \in BOOLEAN : CreateAlertLog("E1", ok)
    \/ \E r \in DispatchSmsResults : SendSmsAlert("E1", r)
    \/ ReturnReport("E1")

SpecUrgency == InitUrgency /\ [][NextUrgency]_vars

\* the highest severity among the hazards of type t in a list that holds one
MaxSeverity(hazards, t) ==
    CHOOSE s \in SEVERITY_CHOICES :
        /\ \E i \in 1..Len(hazards) : hazards[i].type = t /\ hazards[i].severity = s
        /\ \A i \in 1..Len(hazards) : hazards[i].type = t => hazards[i].severity <= s

\* the most urgent channel select_alert_channel gives a hazard of type t
VoiceFor(hazards, t) ==
    \E i \in 1..Len(hazards) :
        hazards[i].type = t /\ select_alert_channel(hazards[i]) = "VOICE"

\* C35: for every type present among the nearby hazards, the highest severity
\* of the type in the deduplicated list equals the highest severity of the
\* type among the nearby hazards, and a type is announced by voice after
\* deduplication exactly if it would be before.
C35_HighestSeverity ==
    \A e \in Engines :
        Processing(e) =>
            LET nearby == eng[e].nearby_hazards
                kept == eng[e].deduplicated_hazards
            IN  \A t \in TypesOf(nearby) :
                    /\ t \in TypesOf(kept)
                    /\ MaxSeverity(kept, t) = MaxSeverity(nearby, t)
                    /\ VoiceFor(kept, t) <=> VoiceFor(nearby, t)

\* a cluster whose seed, the hazard nearest to the driver, has severity 3 and
\* whose other member has severity 5: the farther hazard is the one kept, and
\* the run announced it by voice
C35_Witness ==
    /\ RunDone("E1")
    /\ Len(eng["E1"].nearby_hazards) = 2
    /\ Len(eng["E1"].deduplicated_hazards) = 1
    /\ eng["E1"].nearby_hazards[1].severity = 3
    /\ eng["E1"].nearby_hazards[2].severity = 5
    /\ eng["E1"].deduplicated_hazards[1] = eng["E1"].nearby_hazards[2]
    /\ Len(voiceLog) = 1

---------------------------------------------------------------------------
(* Specification of one engine whose process_alerts is called again, the
   hazard store changing between the calls *)

\* a hazard is deleted in the admin site; its AlertLog rows go with it
\* (on_delete=CASCADE)
DeleteHazard(i) ==
    /\ i \in 1..Len(store)
    /\ store' = SelectSeq(store, LAMBDA h : h.id # store[i].id)
    /\ alertLog' = SelectSeq(alertLog, LAMBDA row : row.hazard_id # store[i].id)
    /\ UNCHANGED <<now, eng, smsLog, voiceLog, ussd_vars>>

ReuseSeverities == {1, 3}

\* the stores of n hazards
ReuseStores(n) == Stores(n, TypesUsed, ReuseSeverities, RunLats, {0})

InitReuse ==
    /\ \E n \in 1..MaxPipelineHazards : store \in ReuseStores(n)
    /\ alertLog = <<>>
    /\ now = 0
    /\ eng = [e \in Engines |-> NoEngine]
    /\ smsLog = <<>>
    /\ voiceLog = <<>>
    /\ ussd_loaded

NextReuse ==
    \/ /\ eng["E1"].pc = "new"
       /\ LifesaverAlertEngine("E1", "P1", 0, DEFAULT_RADIUS_METERS)
    \/ ProcessAlerts("E1")
    \/ NextHazard("E1")
    \/ FatigueCheck("E1")
    \/ \E ok \in BOOLEAN : CreateAlertLog("E1", ok)
    \/ \E r \in DispatchSmsResults : SendSmsAlert("E1", r)
    \/ ReturnReport("E1")
    \* between two calls: hazards are deleted, the cooldown passes
    \/ /\ eng["E1"].pc = "idle"
       /\ \/ \E i \in 1..Len(store) : DeleteHazard(i)
          \/ Tick(ALERT_COOLDOWN_MINUTES + 1)

SpecReuse == InitReuse /\ [][NextReuse]_vars

\* the ids of the hazards of a list
IdsOf(hazards) == {hazards[i].id : i \in 1..Len(hazards)}

\* C36: in the result of every process_alerts call, also of a later call on
\* the same engine after hazards were deleted, deduplicated <= nearby_hazards
\* and every hazard listed in hazards and in alerts is one the call itself
\* found within the radius.
C36_ReuseConsistency ==
    \A e \in Engines :
        RunDone(e) =>
            LET r == ReportOf(e)
                found == eng[e].nearby_hazards
            IN  /\ r.nearby_hazards = Len(found)
                /\ r.deduplicated <= r.nearby_hazards
                /\ \A i \in 1..Len(r.hazards) : r.hazards[i] \in Range(found)
                /\ \A k \in 1..Len(r.alerts) : r.alerts[k].hazard_id \in IdsOf(found)

\* C37: the alerts list of every process_alerts result, also of a later call
\* on the same engine, has one entry per entry of the hazards list, in the
\* same order with the same hazard ids, and alerts_sent is that number.
C37_OutcomesMatch ==
    \A e \in Engines :
        RunDone(e) =>
            LET r == ReportOf(e)
            IN  /\ Len(r.alerts) = Len(r.hazards)
                /\ r.alerts_sent = Len(r.hazards)
                /\ \A k \in 1..Len(r.alerts) :
                      k <= Len(r.hazards) => r.alerts[k].hazard_id = r.hazards[k].id

---------------------------------------------------------------------------
(* Specification of one run over stores whose hazards carry an expiry *)

\* null, a time before the run, a time after it
ExpiryChoices == {NO_EXPIRY, <<-1>>, <<MaxTime + 1>>}

\* the rows as the Hazard model holds them, with the expiries x; the other
\* stores leave the field out
WithExpiry(rows, x) ==
    [i \in 1..Len(rows) |->
        [f \in DOMAIN rows[i] \cup {"expires_at"} |->
            IF f = "expires_at" THEN x[i] ELSE rows[i][f]]]

\* the stores of n hazards
ExpiryStores(n) ==
    {WithExpiry(rows, x) : x \in [1..n -> ExpiryChoices],
                           rows \in Stores(n, TypesUsed, SmsSeverities, RunLats, {0})}

InitExpiry ==
    /\ \E n \in 1..MaxPipelineHazards : store \in ExpiryStores(n)
    /\ alertLog = <<>>
    /\ now = 0
    /\ eng = [e \in Engines |-> NoEngine]
    /\ smsLog = <<>>
    /\ voiceLog = <<>>
    /\ ussd_loaded

NextExpiry ==
    \/ /\ eng["E1"].pc = "new"
       /\ LifesaverAlertEngine("E1", "P1", 0, DEFAULT_RADIUS_METERS)
    \/ NextHazard("E1")
    \/ FatigueCheck("E1")
    \/ \E ok \in BOOLEAN : CreateAlertLog("E1", ok)
    \/ \E r \in DispatchSmsResults : SendSmsAlert("E1", r)
    \/ ReturnReport("E1")

SpecExpiry == InitExpiry /\ [][NextExpiry]_vars

\* the expiry of the hazard lies in the past
Expired(h) == h.expires_at # NO_EXPIRY /\ h.expires_at[1] < now

\* the rows with their expiries cleared
Unexpiring(rows) == [i \in 1..Len(rows) |-> [rows[i] EXCEPT !.expires_at = NO_EXPIRY]]

\* C38: the pipeline does not read expires_at: the hazards a run finds, keeps
\* and alerts are, expiries aside, those it finds, keeps and alerts over the
\* same store with every expiry cleared; a hazard whose expiry is past is
\* found when within the radius, can represent its cluster and is dispatched.
C38_ExpiryIgnored ==
    \A e \in Engines :
        Processing(e) =>
            LET E == eng[e]
                found == find_nearby(Unexpiring(store), E.latitude, Longitude, E.radius_meters)
                kept == deduplicate(found)
                todo == filter_by_severity(kept)
            IN  /\ Unexpiring(E.nearby_hazards) = found
                /\ Unexpiring(E.deduplicated_hazards) = kept
                /\ Unexpiring(E.hazards_to_alert) = todo
                /\ \A i \in 1..Len(store) :
                      haversine_distance(E.latitude, Longitude, store[i].latitude,
                                         store[i].longitude) <= E.radius_meters * MM_PER_METER
                          => store[i] \in Range(E.nearby_hazards)
                /\ RunDone(e) =>
                      /\ Len(E.alerts_sent) = Len(todo)
                      /\ \A k \in 1..Len(todo) :
                            /\ E.alerts_sent[k].hazard_id = todo[k].id
                            /\ E.alerts_sent[k].trace.guard # "none"

\* two hazards of one cluster, the one of higher severity expired and the other
\* without expiry: the run kept the expired one and its SMS was sent
C38_Witness ==
    /\ RunDone("E1")
    /\ Len(eng["E1"].nearby_hazards) = 2
    /\ \E i, j \in 1..2 :
          /\ Expired(eng["E1"].nearby_hazards[i])
          /\ eng["E1"].nearby_hazards[j].expires_at = NO_EXPIRY
          /\ eng["E1"].deduplicated_hazards = <<eng["E1"].nearby_hazards[i]>>
    /\ Len(eng["E1"].alerts_sent) = 1
    /\ eng["E1"].alerts_sent[1].success

---------------------------------------------------------------------------
(* Claim about the sessions of different phone numbers *)

\* C39: a USSD request of one phone number leaves the stored session, state
\* and data, of every other phone number as it was, a request that cannot be
\* read leaves every session as it was, and a Report row created by the
\* request carries the caller's number and the hazard type of the caller's own
\* session.
C39_SessionIsolation ==
    [][/\ \A p \in UssdPhones :
            ussd_call'.phone_number # <<p>> => ussd_sessions'[p] = ussd_sessions[p]
       /\ reports' # reports =>
            LET row == reports'[Len(reports')]
                a == ussd_call'.phone_number[1]
            IN  /\ row.phone_number = a
                /\ <<row.hazard_type>> = ChosenType(ussd_sessions, a)
                /\ \A p \in UssdPhones \ {a} :
                      ChosenType(ussd_sessions', p) = ChosenType(ussd_sessions, p)]_vars

\* P1's report of an accident was just created and P1's session removed, while
\* P2's session still waits in the confirm state with the black spot P2 chose
C39_Witness ==
    /\ Len(reports) = 1
    /\ reports[1].phone_number = "P1"
    /\ reports[1].hazard_type = "ACCIDENT"
    /\ Caller = <<"P1">>
    /\ ussd_call.state = STATE_CONFIRM
    /\ ussd_sessions["P1"] = <<>>
    /\ ussd_sessions["P2"] # <<>>
    /\ ussd_sessions["P2"][1].state = STATE_CONFIRM
    /\ ChosenType(ussd_sessions, "P2") = <<"BLACKSPOT">>

=============================================================================
